---------------------------- MODULE Spec2Model ----------------------------
(***************************************************************************)
(* Gas Town web dashboard: the change detector (Broadcaster), and the      *)
(* WebSocket broadcast hub (ws.Hub / ws.Client).                           *)
(*                                                                         *)
(* The module holds several specifications over one set of variables:      *)
(*   SpecClassify  detectChangeType applied to a pair of agentSnapshots    *)
(*   SpecPoll      the poll loop running checkForChanges cycles            *)
(*   SpecDiff      the diff of checkForChanges run twice, nothing stored   *)
(*   SpecHub       Hub.Run, Hub.Broadcast, ServeWS and the client pumps    *)
(* A specification leaves the variables of the other parts at their        *)
(* initial values.                                                         *)
(***************************************************************************)
EXTENDS Naturals, Sequences, FiniteSets, Bags, TLC

VARIABLES
    \* ---- detectChangeType applied to one pair (SpecClassify)
    argPrev,        \* the prev argument
    argCurr,        \* the curr argument
    changeType,     \* the returned change kind ("" before the call)
    \* ---- Broadcaster (SpecPoll, SpecDiff)
    prevAgents,     \* b.prevAgents: address -> agentSnapshot
    currentAgents,  \* currentAgents of the running checkForChanges
    bpc,            \* position of the poll loop
    todoCurr,       \* addresses the first range loop has still to visit
    todoPrev,       \* addresses the second range loop has still to visit
    handed,         \* bag of the messages passed to b.hub.Broadcast in this cycle
    firstRun,       \* SpecDiff: whether the first run is over, and its messages
    \* ---- Hub and clients (SpecHub)
    clients,        \* h.clients: the registered clients
    broadcast,      \* h.broadcast: the buffered intake channel
    send,           \* c.send: each client's buffered outbound channel
    sendOpen,       \* whether c.send is open (not yet closed)
    topics,         \* c.topics: each client's subscription set
    cstate,         \* each connection: "new", "live", "closing", "done"
    wstate,         \* each writePump: "off", "idle", "drain", "done"
    panicked,       \* a send on, or a close of, a closed channel has happened
    last,           \* "read_ignored" or "broadcast_dropped" right after such a step, else "other"
    \* ---- doctor checks (SpecAttach, SpecSingleton)
    beadsDirs,      \* the issue store of every partition (beads directory)
    findOutput,     \* what the find command of findRigBeadsDirs prints, or its failure
    invalidAttachments, \* HookAttachmentValidCheck.invalidAttachments
    duplicates,     \* HookSingletonCheck.duplicates
    result,         \* the CheckResult of the last Run
    fixErr,         \* the error of the last Fix: the failures joined, <<>> for nil
    phase,          \* the calls made since the stores last changed from outside
    \* ---- StatusHandler.buildStatus (SpecStatus)
    sworld,         \* what the call reads: configuration, sessions, rigs, beads, mail
    spc,            \* position of buildStatus
    townStatus,     \* status: the TownStatus under construction
    rigActiveHooks, \* rigActiveHooks: the hook count each rig goroutine reports
    pendingG,       \* the goroutines the WaitGroup still waits for
    \* ---- ConvoysHandler.buildConvoyInfo (SpecConvoy)
    convoyIn,       \* the convoy issue, the detailed flag and the issue store read
    convoyInfo,     \* the ConvoyInfo returned
    \* ---- Broadcaster.Start / Stop (SpecStop) and concurrent checkForChanges (SpecLock)
    stopCh,         \* b.stopCh: "open" or "closed"
    wgCount,        \* the counter of b.wg
    stopPc,         \* position of the caller of Stop
    stopAt,         \* where the poll loop stood when Stop was called ("" before)
    mu,             \* b.mu: the caller holding it, or "free"
    cpc,            \* position of each caller of checkForChanges
    ccur,           \* each caller's local currentAgents
    \* ---- events on their way to the connections (SpecPipe)
    clock,          \* the number of the poll cycle that is handing events over
    emitted,        \* the addresses that cycle has handed an event over for
    wframe,         \* each writePump: the bytes written to the open frame writer
    wn,             \* each writePump: n, the queued messages still to join the frame
    conn,           \* each connection: the frames written to it, in order
    \* ---- buildStatus called twice on one town (SpecModes)
    firstCall,      \* the mode, mail state and result of the first call, <<>> before
    \* ---- getAgentSnapshots on a town (SpecSnapshot, SpecDetect)
    snapshot,       \* what getAgentSnapshots returned, <<>> before the call
    dworld,         \* the town the poll loop reads, <<>> when none is modelled
    \* ---- Server.Start (SpecServer)
    server,         \* the server: position of Start, town root, the goroutines started
    \* ---- Hub.Run and ClientCount on h.mu (SpecRegistry)
    hmu,            \* h.mu: the holder of the write lock, the holders of the read lock
    rpc,            \* position of Hub.Run and the client or clients it is working on
    cnt             \* the ClientCount caller: its position and the length it read

classifyVars == <<argPrev, argCurr, changeType>>
pollVars     == <<prevAgents, currentAgents, bpc, todoCurr, todoPrev, handed, firstRun>>
hubVars      == <<clients, broadcast, send, sendOpen, topics, cstate, wstate, panicked, last>>
doctorVars   == <<beadsDirs, findOutput, invalidAttachments, duplicates, result, fixErr, phase>>
statusVars   == <<sworld, spc, townStatus, rigActiveHooks, pendingG>>
convoyVars   == <<convoyIn, convoyInfo>>
lifeVars     == <<stopCh, wgCount, stopPc, stopAt>>
lockVars     == <<mu, cpc, ccur>>
pipeVars     == <<clock, emitted, wframe, wn, conn>>
modeVars     == <<firstCall>>
snapVars     == <<snapshot, dworld>>
serverVars   == <<server>>
regVars      == <<hmu, rpc, cnt>>
laterVars    == <<pipeVars, modeVars, snapVars, serverVars, regVars>>
otherVars    == <<doctorVars, statusVars, convoyVars, lifeVars, lockVars, laterVars>>
nonDoctorVars == <<classifyVars, pollVars, hubVars, statusVars, convoyVars, lifeVars, lockVars, laterVars>>
nonStatusVars == <<classifyVars, pollVars, hubVars, doctorVars, convoyVars, lifeVars, lockVars, laterVars>>
nonConvoyVars == <<classifyVars, pollVars, hubVars, doctorVars, statusVars, lifeVars, lockVars, laterVars>>
vars         == <<classifyVars, pollVars, hubVars, otherVars>>

-----------------------------------------------------------------------------
(* agentSnapshot values                                                    *)

HookIds == {"", "gt-42", "gt-7"}
States == {"", "working", "done"}
WorkTitles == {"", "Fix login bug"}

\* type agentSnapshot struct { Running, HasWork, HookBead, State, WorkTitle }
agentSnapshot ==
    [Running : BOOLEAN, HasWork : BOOLEAN, HookBead : HookIds,
     State : States, WorkTitle : WorkTitles]

\* The zero value of the struct.
ZeroSnapshot ==
    [Running |-> FALSE, HasWork |-> FALSE, HookBead |-> "",
     State |-> "", WorkTitle |-> ""]

\* A mutant of detectChangeType: the hook comparison comes first.
DetectChangeTypeHookFirst(prev, curr) ==
    IF prev.HookBead # curr.HookBead
    THEN (IF curr.HookBead # "" THEN "work_assigned" ELSE "work_completed")
    ELSE IF prev.Running # curr.Running
    THEN (IF curr.Running THEN "started" ELSE "stopped")
    ELSE IF prev.State # curr.State THEN "state_changed"
    ELSE "updated"

\* A mutant of detectChangeType: the lifecycle state is compared before the hook.
DetectChangeTypeStateFirst(prev, curr) ==
    IF prev.Running # curr.Running
    THEN (IF curr.Running THEN "started" ELSE "stopped")
    ELSE IF prev.State # curr.State THEN "state_changed"
    ELSE IF prev.HookBead # curr.HookBead
    THEN (IF curr.HookBead # "" THEN "work_assigned" ELSE "work_completed")
    ELSE "updated"

\* Broadcaster.detectChangeType
DetectChangeType(prev, curr) ==
    IF prev.Running # curr.Running
    THEN (IF curr.Running THEN "started" ELSE "stopped")
    ELSE IF prev.HookBead # curr.HookBead
    THEN (IF curr.HookBead # "" THEN "work_assigned" ELSE "work_completed")
    ELSE IF prev.State # curr.State THEN "state_changed"
    ELSE "updated"

-----------------------------------------------------------------------------
(* The external state one getAgentSnapshots call reads: the rigs           *)
(* configuration, the tmux sessions, the discovered rigs and each rig's    *)
(* beads store.                                                            *)

Nil == "<nil>"

RigNames == {"acme"}
AgentNames == {"fox"}

\* type WSMessage types (api.WSTypeAgentUpdate, api.WSTypeEvent)
WSTypeAgentUpdate == "agent_update"
WSTypeEvent == "event"

\* fmt "gt-" + r.Name + "-" + name
SessionName(rigName, name) == "gt-" \o rigName \o "-" \o name

\* r.Name + "/" + name
Address(rigName, name) == rigName \o "/" \o name

SessionNames ==
    {"gt-mayor"} \cup {SessionName(r, n) : r \in RigNames, n \in AgentNames \cup {"witness", "refinery"}}

\* rig.Rig as DiscoverRigs returns it
Rigs ==
    {r \in [Name : RigNames, Polecats : {<<>>, <<"fox">>}, Crew : {<<>>, <<"fox">>},
            HasWitness : BOOLEAN, HasRefinery : BOOLEAN] :
        /\ ~(r.Polecats # <<>> /\ r.Crew # <<>>)
        /\ ~(r.HasWitness /\ r.HasRefinery)}

\* An agent bead: the HookBead field, the hook_bead that ParseAgentFields reads
\* out of the description (Nil when it returns nil), and the AgentState field.
AgentBeadIssues ==
    [HookBead : {"", "gt-42"}, ParsedHookBead : {Nil, "gt-42"}, AgentState : {"", "working"}]

\* ListAgentBeads of one rig's store: a nil map (on error), or id -> issue
AgentBeadMaps ==
    {[isNil |-> TRUE, beads |-> [a \in {} |-> Nil]]} \cup
    {[isNil |-> FALSE, beads |-> [a \in dom |-> b]] :
        dom \in SUBSET {Address("acme", "fox")}, b \in AgentBeadIssues}

\* The issues ShowMultiple can find in one rig's store: id -> issue
HookStores ==
    {[i \in dom |-> [Title |-> "Fix login bug"]] : dom \in SUBSET {"gt-42"}}

\* The worlds in which configuration and discovery succeed.
HealthyWorlds ==
    [rigsConfigOK : {TRUE}, discoverOK : {TRUE},
     sessionList : {[err |-> TRUE, names |-> {}]} \cup
                   {[err |-> FALSE, names |-> n] : n \in SUBSET SessionNames},
     rigs : {<<>>} \cup {<<r>> : r \in Rigs},
     agentBeads : [RigNames -> AgentBeadMaps],
     hookStore : [RigNames -> HookStores]]

\* The worlds in which LoadRigsConfig or DiscoverRigs fails.
FailedWorlds ==
    {w \in [rigsConfigOK : BOOLEAN, discoverOK : BOOLEAN,
            sessionList : {[err |-> FALSE, names |-> {"gt-mayor", "gt-acme-fox"}]},
            rigs : {<<[Name |-> "acme", Polecats |-> <<"fox">>, Crew |-> <<>>,
                       HasWitness |-> TRUE, HasRefinery |-> FALSE]>>},
            agentBeads : [RigNames -> {[isNil |-> TRUE, beads |-> [a \in {} |-> Nil]]}],
            hookStore : [RigNames -> {[i \in {} |-> [Title |-> ""]]}]] :
        ~(w.rigsConfigOK /\ w.discoverOK)}

Worlds == HealthyWorlds \cup FailedWorlds

-----------------------------------------------------------------------------
(* Broadcaster.getAgentSnapshots                                           *)

EmptySnapshots == [a \in {} |-> ZeroSnapshot]

\* m1 overwritten by the entries of m2 (assignments m[k] = v made in order)
Merge(m1, m2) ==
    [k \in (DOMAIN m1) \cup (DOMAIN m2) |-> IF k \in DOMAIN m2 THEN m2[k] ELSE m1[k]]

Range(s) == {s[i] : i \in DOMAIN s}

\* hookID := issue.HookBead; if "" then ParseAgentFields(issue.Description).HookBead
BeadHookID(issue) ==
    IF issue.HookBead # "" THEN issue.HookBead
    ELSE IF issue.ParsedHookBead # Nil THEN issue.ParsedHookBead
    ELSE ""

\* The pre-fetch loop, agent beads: rigs whose ListAgentBeads is nil are skipped.
RECURSIVE AllAgentBeads(_, _)
AllAgentBeads(w, rigs) ==
    IF rigs = <<>> THEN [a \in {} |-> Nil]
    ELSE LET r == rigs[Len(rigs)]
             before == AllAgentBeads(w, SubSeq(rigs, 1, Len(rigs) - 1))
             rigAgentBeads == w.agentBeads[r.Name]
         IN  IF rigAgentBeads.isNil THEN before ELSE Merge(before, rigAgentBeads.beads)

\* rigBeads.ShowMultiple(hookIDs): the issues found, missing ones left out
ShowMultiple(store, hookIDs) == [i \in (DOMAIN store) \cap hookIDs |-> store[i]]

\* The pre-fetch loop, hook beads.
RECURSIVE AllHookBeads(_, _)
AllHookBeads(w, rigs) ==
    IF rigs = <<>> THEN [i \in {} |-> Nil]
    ELSE LET r == rigs[Len(rigs)]
             before == AllHookBeads(w, SubSeq(rigs, 1, Len(rigs) - 1))
             rigAgentBeads == w.agentBeads[r.Name]
             hookIDs == {BeadHookID(rigAgentBeads.beads[a]) : a \in DOMAIN rigAgentBeads.beads} \ {""}
         IN  IF rigAgentBeads.isNil \/ hookIDs = {} THEN before
             ELSE Merge(before, ShowMultiple(w.hookStore[r.Name], hookIDs))

\* A mutant of the polecat and crew loop bodies: the hook id and the title are
\* stored, HasWork is not set.
PolecatSnapshotNoFlag(rigName, name, sessions, allAgentBeads, allHookBeads) ==
    LET address == Address(rigName, name)
        snap == [ZeroSnapshot EXCEPT !.Running = SessionName(rigName, name) \in sessions]
    IN  IF address \in DOMAIN allAgentBeads
        THEN LET bead == allAgentBeads[address]
                 hookID == BeadHookID(bead)
                 withHook ==
                     IF hookID # ""
                     THEN [snap EXCEPT !.HookBead = hookID,
                                       !.WorkTitle = IF hookID \in DOMAIN allHookBeads
                                                     THEN allHookBeads[hookID].Title
                                                     ELSE ""]
                     ELSE snap
             IN  [withHook EXCEPT !.State = bead.AgentState]
        ELSE snap

\* The snapshot of one polecat or crew member (the two loop bodies are the same).
PolecatSnapshot(rigName, name, sessions, allAgentBeads, allHookBeads) ==
    LET address == Address(rigName, name)
        snap == [ZeroSnapshot EXCEPT !.Running = SessionName(rigName, name) \in sessions]
    IN  IF address \in DOMAIN allAgentBeads
        THEN LET bead == allAgentBeads[address]
                 hookID == BeadHookID(bead)
                 withHook ==
                     IF hookID # ""
                     THEN [snap EXCEPT !.HasWork = TRUE, !.HookBead = hookID,
                                       !.WorkTitle = IF hookID \in DOMAIN allHookBeads
                                                     THEN allHookBeads[hookID].Title
                                                     ELSE ""]
                     ELSE snap
             IN  [withHook EXCEPT !.State = bead.AgentState]
        ELSE snap

\* The snapshots one rig contributes: polecats, crew, witness, refinery, in order.
RigSnapshots(r, sessions, allAgentBeads, allHookBeads) ==
    LET members(names) ==
            [a \in {Address(r.Name, n) : n \in Range(names)} |->
                LET n == CHOOSE n \in Range(names) : Address(r.Name, n) = a
                IN  PolecatSnapshot(r.Name, n, sessions, allAgentBeads, allHookBeads)]
        role(present, name) ==
            IF present
            THEN [a \in {Address(r.Name, name)} |->
                    [ZeroSnapshot EXCEPT !.Running = SessionName(r.Name, name) \in sessions]]
            ELSE EmptySnapshots
    IN  Merge(Merge(Merge(members(r.Polecats), members(r.Crew)),
                    role(r.HasWitness, "witness")),
              role(r.HasRefinery, "refinery"))

RECURSIVE AllRigSnapshots(_, _, _, _)
AllRigSnapshots(rigs, sessions, allAgentBeads, allHookBeads) ==
    IF rigs = <<>> THEN EmptySnapshots
    ELSE Merge(AllRigSnapshots(SubSeq(rigs, 1, Len(rigs) - 1), sessions,
                               allAgentBeads, allHookBeads),
               RigSnapshots(rigs[Len(rigs)], sessions, allAgentBeads, allHookBeads))

\* A mutant of the global-agents loop: mayor and deacon are always listed,
\* running or not.
GlobalSnapshotsAlways(sessions) ==
    [name \in {"mayor", "deacon"} |->
        [ZeroSnapshot EXCEPT !.Running = ("gt-" \o name) \in sessions]]

\* The global agents: present only while their session exists.
GlobalSnapshots(sessions) ==
    [name \in {n \in {"mayor", "deacon"} : ("gt-" \o n) \in sessions} |->
        [ZeroSnapshot EXCEPT !.Running = TRUE]]

\* A mutant of getAgentSnapshots: a rigs configuration that does not load is
\* replaced by an empty one, as buildStatus does, and the read goes on.
GetAgentSnapshotsLenient(w) ==
    LET sessions == IF w.sessionList.err THEN {} ELSE w.sessionList.names
    IN  IF ~w.discoverOK THEN EmptySnapshots
        ELSE Merge(GlobalSnapshots(sessions),
                   AllRigSnapshots(w.rigs, sessions,
                                   AllAgentBeads(w, w.rigs), AllHookBeads(w, w.rigs)))

\* Broadcaster.getAgentSnapshots
GetAgentSnapshots(w) ==
    IF ~w.rigsConfigOK THEN EmptySnapshots
    ELSE LET sessions == IF w.sessionList.err THEN {} ELSE w.sessionList.names
         IN  IF ~w.discoverOK THEN EmptySnapshots
             ELSE Merge(GlobalSnapshots(sessions),
                        AllRigSnapshots(w.rigs, sessions,
                                        AllAgentBeads(w, w.rigs), AllHookBeads(w, w.rigs)))

\* Every snapshot a poll can observe: what getAgentSnapshots returns in some world.
ObservableSnapshots == {GetAgentSnapshots(w) : w \in Worlds}

-----------------------------------------------------------------------------
(* The values the variables of a part hold while another part runs.        *)

\* The connections that may be opened, each once.
Clients == {"c1", "c2"}

\* Capacity of h.broadcast in the model (256 in NewHub).
BroadcastCap == 1

\* Capacity of each c.send in the model (256 in ServeWS).
SendCap == 1

ClassifyIdle ==
    /\ argPrev = ZeroSnapshot
    /\ argCurr = ZeroSnapshot
    /\ changeType = ""

\* NewBroadcaster: prevAgents is an empty map
PollIdle ==
    /\ prevAgents = EmptySnapshots
    /\ currentAgents = EmptySnapshots
    /\ bpc = "idle"
    /\ todoCurr = {}
    /\ todoPrev = {}
    /\ handed = EmptyBag
    /\ firstRun = [taken |-> FALSE, msgs |-> EmptyBag]

\* NewHub: no client, an empty intake channel
HubIdle ==
    /\ clients = {}
    /\ broadcast = <<>>
    /\ send = [c \in Clients |-> <<>>]
    /\ sendOpen = [c \in Clients |-> FALSE]
    /\ topics = [c \in Clients |-> {}]
    /\ cstate = [c \in Clients |-> "new"]
    /\ wstate = [c \in Clients |-> "off"]
    /\ panicked = FALSE
    /\ last = "other"

\* The doctor checks before any Run: no store attached, nothing remembered
DoctorIdle ==
    /\ beadsDirs = <<>>
    /\ findOutput = <<>>
    /\ invalidAttachments = <<>>
    /\ duplicates = <<>>
    /\ result = <<>>
    /\ fixErr = <<>>
    /\ phase = "idle"

\* No buildStatus call in progress
StatusIdle ==
    /\ sworld = <<>>
    /\ spc = "idle"
    /\ townStatus = <<>>
    /\ rigActiveHooks = <<>>
    /\ pendingG = {}

\* No buildConvoyInfo call in progress
ConvoyIdle ==
    /\ convoyIn = <<>>
    /\ convoyInfo = <<>>

\* NewBroadcaster: the stop channel open, nothing waited for, the mutex free
LifeIdle ==
    /\ stopCh = "open"
    /\ wgCount = 0
    /\ stopPc = "idle"
    /\ stopAt = ""

LockIdle ==
    /\ mu = "free"
    /\ cpc = <<>>
    /\ ccur = <<>>

\* No cycle has handed an event over, no writePump has an open frame writer,
\* nothing was written to a connection
PipeIdle ==
    /\ clock = 0
    /\ emitted = {}
    /\ wframe = [c \in Clients |-> <<>>]
    /\ wn = [c \in Clients |-> 0]
    /\ conn = [c \in Clients |-> <<>>]

ModeIdle == firstCall = <<>>

SnapIdle == snapshot = <<>> /\ dworld = <<>>

ServerIdle == server = <<>>

RegistryIdle == hmu = <<>> /\ rpc = <<>> /\ cnt = <<>>

LaterIdle == PipeIdle /\ ModeIdle /\ SnapIdle /\ ServerIdle /\ RegistryIdle

OtherIdle ==
    /\ DoctorIdle
    /\ StatusIdle
    /\ ConvoyIdle
    /\ LifeIdle
    /\ LockIdle
    /\ LaterIdle

NonDoctorIdle ==
    /\ ClassifyIdle
    /\ PollIdle
    /\ HubIdle
    /\ StatusIdle
    /\ ConvoyIdle
    /\ LifeIdle
    /\ LockIdle
    /\ LaterIdle

NonStatusIdle ==
    /\ ClassifyIdle
    /\ PollIdle
    /\ HubIdle
    /\ DoctorIdle
    /\ ConvoyIdle
    /\ LifeIdle
    /\ LockIdle
    /\ LaterIdle

NonConvoyIdle ==
    /\ ClassifyIdle
    /\ PollIdle
    /\ HubIdle
    /\ DoctorIdle
    /\ StatusIdle
    /\ LifeIdle
    /\ LockIdle
    /\ LaterIdle

-----------------------------------------------------------------------------
(* SpecClassify: detectChangeType on every pair of agentSnapshot values.   *)

InitClassify ==
    /\ argPrev \in agentSnapshot
    /\ argCurr \in agentSnapshot
    /\ changeType = ""
    /\ PollIdle
    /\ HubIdle
    /\ OtherIdle

\* changeType := b.detectChangeType(prev, curr)
Classify ==
    /\ changeType = ""
    /\ changeType' = DetectChangeType(argPrev, argCurr)
    /\ UNCHANGED <<argPrev, argCurr, pollVars, hubVars, otherVars>>

NextClassify == Classify

SpecClassify == InitClassify /\ [][NextClassify]_vars

-----------------------------------------------------------------------------
(* Broadcaster.checkForChanges, one range-loop iteration per step.         *)

\* The message broadcastAgentUpdate builds (the timestamp is left out).
AgentUpdateMsg(address, kind, snap) ==
    [Type |-> WSTypeAgentUpdate,
     Payload |-> [Address |-> address, Running |-> snap.Running, HasWork |-> snap.HasWork,
                  HookBead |-> snap.HookBead, WorkTitle |-> snap.WorkTitle,
                  State |-> snap.State, ChangeType |-> kind]]

\* Broadcaster.broadcastAgentUpdate: one call of b.hub.Broadcast
BroadcastAgentUpdate(address, kind, snap) ==
    handed' = handed (+) SetToBag({AgentUpdateMsg(address, kind, snap)})

\* checkForChanges takes b.mu and reads the current agent states; at is where
\* the poll loop stands before the call, observable what the read can return
CheckForChangesBegin(at, observable) ==
    /\ bpc = at
    /\ \E snapshots \in observable :
        /\ currentAgents' = snapshots
        /\ todoCurr' = DOMAIN snapshots
    /\ todoPrev' = DOMAIN prevAgents
    /\ handed' = EmptyBag
    /\ bpc' = "polling"
    /\ UNCHANGED <<prevAgents, firstRun, classifyVars, hubVars, otherVars>>

BeginCycle == CheckForChangesBegin("idle", ObservableSnapshots)

\* A mutant of the first loop: the stored snapshot is updated inside the loop.
VisitCurrentEager(addr) ==
    /\ bpc = "polling"
    /\ addr \in todoCurr
    /\ LET curr == currentAgents[addr]
       IN  /\ IF addr \notin DOMAIN prevAgents
              THEN BroadcastAgentUpdate(addr, "connected", curr)
              ELSE IF curr # prevAgents[addr]
              THEN BroadcastAgentUpdate(addr, DetectChangeType(prevAgents[addr], curr), curr)
              ELSE UNCHANGED handed
           /\ prevAgents' = Merge(prevAgents, [a \in {addr} |-> curr])
    /\ todoCurr' = todoCurr \ {addr}
    /\ UNCHANGED <<currentAgents, bpc, todoPrev, firstRun, classifyVars, hubVars, otherVars>>

\* A mutant of the first loop: an unchanged agent is broadcast as "updated".
VisitCurrentNoCompare(addr) ==
    /\ bpc = "polling"
    /\ addr \in todoCurr
    /\ LET curr == currentAgents[addr]
       IN  IF addr \notin DOMAIN prevAgents
           THEN BroadcastAgentUpdate(addr, "connected", curr)
           ELSE BroadcastAgentUpdate(addr, DetectChangeType(prevAgents[addr], curr), curr)
    /\ todoCurr' = todoCurr \ {addr}
    /\ UNCHANGED <<prevAgents, currentAgents, bpc, todoPrev, firstRun, classifyVars, hubVars, otherVars>>

\* for addr, curr := range currentAgents { ... }: one iteration, in any order
VisitCurrent(addr) ==
    /\ bpc = "polling"
    /\ addr \in todoCurr
    /\ LET curr == currentAgents[addr]
       IN  IF addr \notin DOMAIN prevAgents
           THEN BroadcastAgentUpdate(addr, "connected", curr)
           ELSE IF curr # prevAgents[addr]
           THEN BroadcastAgentUpdate(addr, DetectChangeType(prevAgents[addr], curr), curr)
           ELSE UNCHANGED handed
    /\ todoCurr' = todoCurr \ {addr}
    /\ UNCHANGED <<prevAgents, currentAgents, bpc, todoPrev, firstRun, classifyVars, hubVars, otherVars>>

\* A mutant of the second loop: the check that the agent is gone is missing.
VisitPrevNoCheck(addr) ==
    /\ bpc = "polling"
    /\ todoCurr = {}
    /\ addr \in todoPrev
    /\ BroadcastAgentUpdate(addr, "disconnected", prevAgents[addr])
    /\ todoPrev' = todoPrev \ {addr}
    /\ UNCHANGED <<prevAgents, currentAgents, bpc, todoCurr, firstRun, classifyVars, hubVars, otherVars>>

\* for addr, prev := range b.prevAgents { ... }: one iteration, in any order
VisitPrev(addr) ==
    /\ bpc = "polling"
    /\ todoCurr = {}
    /\ addr \in todoPrev
    /\ IF addr \notin DOMAIN currentAgents
       THEN BroadcastAgentUpdate(addr, "disconnected", prevAgents[addr])
       ELSE UNCHANGED handed
    /\ todoPrev' = todoPrev \ {addr}
    /\ UNCHANGED <<prevAgents, currentAgents, bpc, todoCurr, firstRun, classifyVars, hubVars, otherVars>>

\* A mutant of the replacement: the new snapshot is merged into the stored one.
EndCycleMerge ==
    /\ bpc = "polling"
    /\ todoCurr = {}
    /\ todoPrev = {}
    /\ prevAgents' = Merge(prevAgents, currentAgents)
    /\ currentAgents' = EmptySnapshots
    /\ handed' = EmptyBag
    /\ bpc' = "idle"
    /\ UNCHANGED <<todoCurr, todoPrev, firstRun, classifyVars, hubVars, otherVars>>

\* b.prevAgents = currentAgents, and the deferred b.mu.Unlock()
EndCycle ==
    /\ bpc = "polling"
    /\ todoCurr = {}
    /\ todoPrev = {}
    /\ prevAgents' = currentAgents
    /\ currentAgents' = EmptySnapshots
    /\ handed' = EmptyBag
    /\ bpc' = "idle"
    /\ UNCHANGED <<todoCurr, todoPrev, firstRun, classifyVars, hubVars, otherVars>>

Addresses == UNION {DOMAIN s : s \in ObservableSnapshots}

InitPoll ==
    /\ ClassifyIdle
    /\ PollIdle
    /\ HubIdle
    /\ OtherIdle

NextPoll ==
    \/ BeginCycle
    \/ \E addr \in Addresses : VisitCurrent(addr)
    \/ \E addr \in Addresses : VisitPrev(addr)
    \/ EndCycle

SpecPoll == InitPoll /\ [][NextPoll]_vars

-----------------------------------------------------------------------------
(* SpecDiff: the two loops of checkForChanges run twice on one pair        *)
(* (prevAgents, currentAgents), the stored snapshot never replaced.        *)

InitDiff ==
    /\ prevAgents \in ObservableSnapshots
    /\ currentAgents \in ObservableSnapshots
    /\ bpc = "polling"
    /\ todoCurr = DOMAIN currentAgents
    /\ todoPrev = DOMAIN prevAgents
    /\ handed = EmptyBag
    /\ firstRun = [taken |-> FALSE, msgs |-> EmptyBag]
    /\ ClassifyIdle
    /\ HubIdle
    /\ OtherIdle

\* The first run is over: keep its messages and run the loops again.
Rerun ==
    /\ bpc = "polling"
    /\ todoCurr = {}
    /\ todoPrev = {}
    /\ ~firstRun.taken
    /\ firstRun' = [taken |-> TRUE, msgs |-> handed]
    /\ handed' = EmptyBag
    /\ todoCurr' = DOMAIN currentAgents
    /\ todoPrev' = DOMAIN prevAgents
    /\ UNCHANGED <<prevAgents, currentAgents, bpc, classifyVars, hubVars, otherVars>>

NextDiff ==
    \/ \E addr \in Addresses : VisitCurrent(addr)
    \/ \E addr \in Addresses : VisitPrev(addr)
    \/ Rerun

SpecDiff == InitDiff /\ [][NextDiff]_vars

-----------------------------------------------------------------------------
(* ws.Hub and ws.Client                                                    *)

\* api.TopicAll, api.TopicAgents
TopicAll == "all"
TopicAgents == "agents"

\* The messages producers pass to Hub.Broadcast.
HubMsgs == [Type : {WSTypeAgentUpdate, WSTypeEvent}, Payload : {<<"payload">>}]

\* The topic lists a client sends in a SubscribeMessage.
TopicLists == {<<>>, <<TopicAgents>>}

\* What readPump reads: a frame that does not parse, or a SubscribeMessage.
Inbound ==
    {[parses |-> FALSE, Topics |-> <<>>]} \cup [parses : {TRUE}, Topics : TopicLists]

\* Bytes are kept as a sequence of chunks: a chunk is one of the characters
\* that matter (line feed, quote, backslash) or a run of other characters.

\* A mutant of the JSON encoder: a line feed inside a string is not escaped.
QuoteRaw(chunks) == <<"\"">> \o chunks \o <<"\"">>

\* json.Marshal of a string: quoted, with quote, backslash and line feed escaped
Quote(chunks) ==
    <<"\"">>
    \o [i \in 1..Len(chunks) |->
            IF chunks[i] = "\n" THEN "\\n"
            ELSE IF chunks[i] = "\"" THEN "\\\""
            ELSE IF chunks[i] = "\\" THEN "\\\\"
            ELSE chunks[i]]
    \o <<"\"">>

\* mustMarshal: the JSON text of the message (the timestamp is left out)
MustMarshal(msg) ==
    <<"{\"type\":">> \o Quote(<<msg.Type>>) \o <<",\"payload\":">> \o Quote(msg.Payload) \o <<"}">>

\* A mutant of ServeWS: a new client starts with no topic at all.
DefaultTopicsNone == {}

\* topics: map[string]bool{api.TopicAll: true} in ServeWS
DefaultTopics == {TopicAll}

\* A mutant of isSubscribed: the check of the wildcard topic is missing.
IsSubscribedNoWildcard(clientTopics, topic) == topic \in clientTopics

\* Client.isSubscribed
IsSubscribed(clientTopics, topic) ==
    IF TopicAll \in clientTopics THEN TRUE ELSE topic \in clientTopics

\* Client.subscribe: every listed topic is set to true
Subscribe(clientTopics, topicList) == clientTopics \cup Range(topicList)

\* ServeWS sends the new client on h.register and Run receives it; the pumps start
Register(c) ==
    /\ cstate[c] = "new"
    /\ clients' = clients \cup {c}
    /\ send' = [send EXCEPT ![c] = <<>>]
    /\ sendOpen' = [sendOpen EXCEPT ![c] = TRUE]
    /\ topics' = [topics EXCEPT ![c] = DefaultTopics]
    /\ cstate' = [cstate EXCEPT ![c] = "live"]
    /\ wstate' = [wstate EXCEPT ![c] = "idle"]
    /\ last' = "other"
    /\ UNCHANGED <<broadcast, panicked>>
    /\ UNCHANGED <<classifyVars, pollVars, otherVars>>

\* A mutant of readPump: a message that is no subscription update ends the loop.
ReadMessageStrict(c, in) ==
    /\ cstate[c] = "live"
    /\ topics' = [topics EXCEPT ![c] =
                    IF in.parses /\ Len(in.Topics) > 0
                    THEN Subscribe(topics[c], in.Topics)
                    ELSE topics[c]]
    /\ cstate' = [cstate EXCEPT ![c] =
                    IF in.parses /\ Len(in.Topics) > 0 THEN "live" ELSE "closing"]
    /\ last' = (IF in.parses /\ Len(in.Topics) > 0 THEN "other" ELSE "read_ignored")
    /\ UNCHANGED <<clients, broadcast, send, sendOpen, wstate, panicked>>
    /\ UNCHANGED <<classifyVars, pollVars, otherVars>>

\* readPump: one message read without error
ReadMessage(c, in) ==
    /\ cstate[c] = "live"
    /\ topics' = [topics EXCEPT ![c] =
                    IF in.parses /\ Len(in.Topics) > 0
                    THEN Subscribe(topics[c], in.Topics)
                    ELSE topics[c]]
    /\ last' = (IF in.parses /\ Len(in.Topics) > 0 THEN "other" ELSE "read_ignored")
    /\ UNCHANGED <<clients, broadcast, send, sendOpen, cstate, wstate, panicked>>
    /\ UNCHANGED <<classifyVars, pollVars, otherVars>>

\* readPump: ReadMessage fails; the deferred function waits to send on h.unregister
ReadError(c) ==
    /\ cstate[c] = "live"
    /\ cstate' = [cstate EXCEPT ![c] = "closing"]
    /\ last' = "other"
    /\ UNCHANGED <<clients, broadcast, send, sendOpen, topics, wstate, panicked>>
    /\ UNCHANGED <<classifyVars, pollVars, otherVars>>

\* A mutant of the unregister case: a request for a client that is not in the
\* registry is never taken.
UnregisterMembersOnly(c) ==
    /\ cstate[c] = "closing"
    /\ c \in clients
    /\ clients' = clients \ {c}
    /\ sendOpen' = [sendOpen EXCEPT ![c] = FALSE]
    /\ panicked' = (panicked \/ ~sendOpen[c])
    /\ cstate' = [cstate EXCEPT ![c] = "done"]
    /\ last' = "other"
    /\ UNCHANGED <<broadcast, send, topics, wstate>>
    /\ UNCHANGED <<classifyVars, pollVars, otherVars>>

\* A mutant of the unregister case: the membership test is missing.
UnregisterNoCheck(c) ==
    /\ cstate[c] = "closing"
    /\ clients' = clients \ {c}
    /\ sendOpen' = [sendOpen EXCEPT ![c] = FALSE]
    /\ panicked' = (panicked \/ ~sendOpen[c])
    /\ cstate' = [cstate EXCEPT ![c] = "done"]
    /\ last' = "other"
    /\ UNCHANGED <<broadcast, send, topics, wstate>>
    /\ UNCHANGED <<classifyVars, pollVars, otherVars>>

\* Run receives the client from h.unregister; then readPump closes the connection
Unregister(c) ==
    /\ cstate[c] = "closing"
    /\ IF c \in clients
       THEN /\ clients' = clients \ {c}
            /\ sendOpen' = [sendOpen EXCEPT ![c] = FALSE]
            /\ panicked' = (panicked \/ ~sendOpen[c])
       ELSE UNCHANGED <<clients, sendOpen, panicked>>
    /\ cstate' = [cstate EXCEPT ![c] = "done"]
    /\ last' = "other"
    /\ UNCHANGED <<broadcast, send, topics, wstate>>
    /\ UNCHANGED <<classifyVars, pollVars, otherVars>>

\* A mutant of Hub.Broadcast: the message is queued even when the channel is full.
BroadcastNoDrop(msg) ==
    /\ broadcast' = Append(broadcast, msg)
    /\ last' = "other"
    /\ UNCHANGED <<clients, send, sendOpen, topics, cstate, wstate, panicked>>
    /\ UNCHANGED <<classifyVars, pollVars, otherVars>>

\* Hub.Broadcast: a non-blocking send on h.broadcast
BroadcastSend(msg) ==
    /\ IF Len(broadcast) < BroadcastCap
       THEN broadcast' = Append(broadcast, msg)
       ELSE UNCHANGED broadcast
    /\ last' = (IF Len(broadcast) < BroadcastCap THEN "other" ELSE "broadcast_dropped")
    /\ UNCHANGED <<clients, send, sendOpen, topics, cstate, wstate, panicked>>

\* Hub.Broadcast called by some producer
Broadcast(msg) ==
    /\ BroadcastSend(msg)
    /\ UNCHANGED <<classifyVars, pollVars, otherVars>>

\* The registered clients subscribed to the message's type.
Receivers(msg) == {c \in clients : IsSubscribed(topics[c], msg.Type)}

\* A mutant of the default branch of the select: a full client is skipped, not dropped.
SlowConsumersNone(msg) == {}

\* The receivers whose send channel is full: the default branch of the select.
SlowConsumers(msg) == {c \in Receivers(msg) : Len(send[c]) >= SendCap}

\* Run receives a message from h.broadcast and offers it to every subscribed client
Publish ==
    /\ broadcast # <<>>
    /\ LET message == Head(broadcast)
           full == SlowConsumers(message)
           served == Receivers(message) \ full
       IN  /\ send' = [c \in Clients |->
                          IF c \in served /\ Len(send[c]) < SendCap
                          THEN Append(send[c], MustMarshal(message))
                          ELSE send[c]]
           /\ sendOpen' = [c \in Clients |-> sendOpen[c] /\ c \notin full]
           /\ clients' = clients \ full
           /\ panicked' = (panicked \/ \E c \in Receivers(message) : ~sendOpen[c])
           /\ last' = "other"
    /\ broadcast' = Tail(broadcast)
    /\ UNCHANGED <<topics, cstate, wstate>>
    /\ UNCHANGED <<classifyVars, pollVars, otherVars>>

\* writePump receives the first message of a frame from c.send
WriterRecv(c) ==
    /\ wstate[c] = "idle"
    /\ send[c] # <<>>
    /\ send' = [send EXCEPT ![c] = Tail(send[c])]
    /\ wstate' = [wstate EXCEPT ![c] = "drain"]
    /\ last' = "other"
    /\ UNCHANGED <<clients, broadcast, sendOpen, topics, cstate, panicked>>
    /\ UNCHANGED <<classifyVars, pollVars, otherVars>>

\* writePump: n := len(c.send), the n queued messages join the frame, w.Close()
WriterDrain(c) ==
    /\ wstate[c] = "drain"
    /\ send' = [send EXCEPT ![c] = <<>>]
    /\ wstate' = [wstate EXCEPT ![c] = "idle"]
    /\ last' = "other"
    /\ UNCHANGED <<clients, broadcast, sendOpen, topics, cstate, panicked>>
    /\ UNCHANGED <<classifyVars, pollVars, otherVars>>

\* writePump finds c.send closed and empty: it writes a close message and returns
WriterClosed(c) ==
    /\ wstate[c] = "idle"
    /\ send[c] = <<>>
    /\ ~sendOpen[c]
    /\ wstate' = [wstate EXCEPT ![c] = "done"]
    /\ last' = "other"
    /\ UNCHANGED <<clients, broadcast, send, sendOpen, topics, cstate, panicked>>
    /\ UNCHANGED <<classifyVars, pollVars, otherVars>>

\* writePump: NextWriter, w.Close() or the ping write fails; writePump returns
WriterError(c) ==
    /\ wstate[c] \in {"idle", "drain"}
    /\ wstate' = [wstate EXCEPT ![c] = "done"]
    /\ last' = "other"
    /\ UNCHANGED <<clients, broadcast, send, sendOpen, topics, cstate, panicked>>
    /\ UNCHANGED <<classifyVars, pollVars, otherVars>>

InitHub ==
    /\ ClassifyIdle
    /\ PollIdle
    /\ HubIdle
    /\ OtherIdle

NextHub ==
    \/ \E c \in Clients : Register(c)
    \/ \E c \in Clients, in \in Inbound : ReadMessage(c, in)
    \/ \E c \in Clients : ReadError(c)
    \/ \E c \in Clients : Unregister(c)
    \/ \E msg \in HubMsgs : Broadcast(msg)
    \/ Publish
    \/ \E c \in Clients : WriterRecv(c)
    \/ \E c \in Clients : WriterDrain(c)
    \/ \E c \in Clients : WriterClosed(c)
    \/ \E c \in Clients : WriterError(c)

SpecHub == InitHub /\ [][NextHub]_vars

-----------------------------------------------------------------------------
(* Claims about the change detector.                                       *)

\* The two loops of the running checkForChanges have visited every address.
LoopsDone == bpc = "polling" /\ todoCurr = {} /\ todoPrev = {}

\* The messages handed to the hub in this cycle for one address, and their number.
HandedFor(addr) == {m \in BagToSet(handed) : m.Payload.Address = addr}
CopiesFor(addr) == BagCardinality([m \in HandedFor(addr) |-> handed[m]])

\* The address appeared, disappeared, or its tuple differs between the snapshots.
Changed(addr) ==
    \/ addr \in (DOMAIN currentAgents) \ (DOMAIN prevAgents)
    \/ addr \in (DOMAIN prevAgents) \ (DOMAIN currentAgents)
    \/ /\ addr \in (DOMAIN prevAgents) \cap (DOMAIN currentAgents)
       /\ prevAgents[addr] # currentAgents[addr]

\* C1: whenever the liveness of prev and curr differs, detectChangeType returns
\* "started" if curr is running and "stopped" if it is not, whatever else differs;
\* it never returns work_assigned or work_completed for such a pair.
C1_LivenessPriority ==
    (changeType # "" /\ argPrev.Running # argCurr.Running) =>
        /\ changeType = (IF argCurr.Running THEN "started" ELSE "stopped")
        /\ changeType \notin {"work_assigned", "work_completed"}

\* C1 witness: a liveness flip together with a hook change and a state change,
\* classified "started".
C1_Witness ==
    /\ changeType = "started"
    /\ argPrev.HookBead # argCurr.HookBead
    /\ argPrev.State # argCurr.State

\* C2: for differing tuples of equal liveness, a hook change gives work_assigned
\* (new hook non-empty) or work_completed (new hook empty) even if the state changed
\* too; else a state change gives state_changed; else the kind is updated.
C2_HookThenState ==
    (changeType # "" /\ argPrev # argCurr /\ argPrev.Running = argCurr.Running) =>
        /\ (argPrev.HookBead # argCurr.HookBead /\ argCurr.HookBead # "")
              => changeType = "work_assigned"
        /\ (argPrev.HookBead # argCurr.HookBead /\ argCurr.HookBead = "")
              => changeType = "work_completed"
        /\ (argPrev.HookBead = argCurr.HookBead /\ argPrev.State # argCurr.State)
              => changeType = "state_changed"
        /\ (argPrev.HookBead = argCurr.HookBead /\ argPrev.State = argCurr.State)
              => changeType = "updated"

\* C2 witness: equal liveness, the hook dropped and the state changed in one step,
\* classified work_completed.
C2_Witness ==
    /\ changeType = "work_completed"
    /\ argPrev.Running = argCurr.Running
    /\ argPrev.State # argCurr.State

\* C3: in a poll cycle a message says "connected" exactly for addresses in the new
\* snapshot only and "disconnected" exactly for addresses in the previous snapshot
\* only; once both loops are done every such address has its message.
C3_ConnectedDisconnected ==
    bpc = "polling" =>
        /\ \A m \in BagToSet(handed) :
            /\ m.Payload.ChangeType = "connected" <=>
                 m.Payload.Address \in (DOMAIN currentAgents) \ (DOMAIN prevAgents)
            /\ m.Payload.ChangeType = "disconnected" <=>
                 m.Payload.Address \in (DOMAIN prevAgents) \ (DOMAIN currentAgents)
        /\ LoopsDone =>
            /\ \A addr \in (DOMAIN currentAgents) \ (DOMAIN prevAgents) :
                 \E m \in HandedFor(addr) : m.Payload.ChangeType = "connected"
            /\ \A addr \in (DOMAIN prevAgents) \ (DOMAIN currentAgents) :
                 \E m \in HandedFor(addr) : m.Payload.ChangeType = "disconnected"

\* C3 witness: a finished cycle in which one agent appeared, one disappeared and
\* one stayed (and changed).
C3_Witness ==
    /\ LoopsDone
    /\ \E m \in BagToSet(handed) : m.Payload.ChangeType = "connected"
    /\ \E m \in BagToSet(handed) : m.Payload.ChangeType = "disconnected"
    /\ \E m \in BagToSet(handed) : m.Payload.ChangeType \notin {"connected", "disconnected"}

\* The snapshots differ only in acme/fox, whose hook goes from empty to gt-42.
FoxGetsHook ==
    /\ DOMAIN prevAgents = DOMAIN currentAgents
    /\ "acme/fox" \in DOMAIN currentAgents
    /\ \A a \in (DOMAIN currentAgents) \ {"acme/fox"} : prevAgents[a] = currentAgents[a]
    /\ prevAgents["acme/fox"].Running = currentAgents["acme/fox"].Running
    /\ prevAgents["acme/fox"].HookBead = ""
    /\ currentAgents["acme/fox"].HookBead = "gt-42"

\* C4: a poll cycle hands the hub exactly one agent_update message for every
\* address that appeared, disappeared or changed and none for any other address
\* (never two for one address at any point of the cycle); when only acme/fox's
\* hook goes from empty to gt-42 that is a single work_assigned message for acme/fox.
C4_OneEventPerChange ==
    bpc = "polling" =>
        /\ \A m \in BagToSet(handed) : m.Type = "agent_update"
        /\ \A addr \in Addresses : CopiesFor(addr) <= 1
        /\ LoopsDone =>
            /\ \A addr \in Addresses : CopiesFor(addr) = (IF Changed(addr) THEN 1 ELSE 0)
            /\ FoxGetsHook =>
                /\ BagCardinality(handed) = 1
                /\ \A m \in BagToSet(handed) :
                    /\ m.Type = "agent_update"
                    /\ m.Payload.Address = "acme/fox"
                    /\ m.Payload.ChangeType = "work_assigned"

\* C4 witness: the cycle of the example is over, another agent being present and
\* unchanged, and its one message is handed over.
C4_Witness ==
    /\ LoopsDone
    /\ FoxGetsHook
    /\ "mayor" \in DOMAIN currentAgents
    /\ currentAgents["acme/fox"].WorkTitle = "Fix login bug"
    /\ BagCardinality(handed) = 1

\* C5: the diff run twice on one (prev, next) pair, the previous snapshot not
\* replaced in between, hands over the same set of messages (address, change kind,
\* payload) both times, whatever the order in which the loops visit the addresses.
C5_DiffIdempotent ==
    (LoopsDone /\ firstRun.taken) => BagToSet(handed) = BagToSet(firstRun.msgs)

\* C5 witness: both runs are over and each handed over at least two messages.
C5_Witness ==
    /\ LoopsDone
    /\ firstRun.taken
    /\ BagCardinality(firstRun.msgs) >= 2
    /\ BagCardinality(handed) >= 2

-----------------------------------------------------------------------------
(* Claims about the hub.                                                   *)

\* The step is Run taking the head of h.broadcast (nothing else shortens it).
PublishStep == broadcast # <<>> /\ broadcast' = Tail(broadcast)

AgentUpdateBytes == MustMarshal([Type |-> WSTypeAgentUpdate, Payload |-> <<"payload">>])

EventBytes == MustMarshal([Type |-> WSTypeEvent, Payload |-> <<"payload">>])

\* C6: when Run processes a message, a subscribed client whose send channel is full
\* is removed from the registry and its channel closed in that step, every other
\* subscribed client gets the message appended and stays registered, and Run can
\* always take that step when the intake channel holds a message.
C6_Backpressure ==
    /\ [](broadcast # <<>> => ENABLED Publish)
    /\ [][PublishStep =>
            \A c \in clients :
                (TopicAll \in topics[c] \/ Head(broadcast).Type \in topics[c]) =>
                    IF Len(send[c]) >= SendCap
                    THEN c \notin clients' /\ sendOpen[c] /\ ~sendOpen'[c]
                    ELSE /\ c \in clients'
                         /\ sendOpen'[c]
                         /\ send'[c] = Append(send[c], MustMarshal(Head(broadcast)))]_vars

\* C6 witness: a connection whose reader still runs was dropped with its channel
\* full and closed, while the other client is registered and holds a message.
C6_Witness ==
    \E c \in Clients, d \in Clients :
        /\ c # d
        /\ cstate[c] = "live" /\ c \notin clients /\ ~sendOpen[c]
        /\ Len(send[c]) = SendCap /\ wstate[c] = "idle"
        /\ d \in clients /\ sendOpen[d] /\ send[d] # <<>>

\* C7: Hub.Broadcast can always be called and returns at once; the intake channel
\* grows only by one message appended while it has room, and a call on a full
\* channel leaves the channel, the registry and every send channel as they were.
C7_BroadcastNeverBlocks ==
    /\ [](\A msg \in HubMsgs : ENABLED Broadcast(msg))
    /\ [](Len(broadcast) <= BroadcastCap)
    /\ [][Len(broadcast') > Len(broadcast) =>
            /\ Len(broadcast) < BroadcastCap
            /\ \E msg \in HubMsgs : broadcast' = Append(broadcast, msg)
            /\ UNCHANGED <<clients, send, sendOpen, topics, cstate, wstate>>]_vars
    /\ [][last' = "broadcast_dropped" =>
            /\ Len(broadcast) >= BroadcastCap
            /\ UNCHANGED <<clients, broadcast, send, sendOpen, topics, cstate, wstate>>]_vars

\* C7 witness: a message was just dropped on a full intake channel while a
\* registered client held a queued message.
C7_Witness ==
    /\ last = "broadcast_dropped"
    /\ Len(broadcast) = BroadcastCap
    /\ \E c \in clients : send[c] # <<>>

C9_DefaultWildcard ==
    /\ [](\A c \in clients : TopicAll \in topics[c])
    /\ [][PublishStep =>
            \A c \in clients :
                Len(send[c]) < SendCap =>
                    send'[c] = Append(send[c], MustMarshal(Head(broadcast)))]_vars

\* C9 witness: two registered clients, one with the default topic set and one
\* after a subscription update, both hold an agent_update message.
C9_Witness ==
    \E c \in clients, d \in clients :
        /\ topics[c] = {TopicAll} /\ topics[d] = {TopicAll, TopicAgents}
        /\ send[c] # <<>> /\ send[c][Len(send[c])] = AgentUpdateBytes
        /\ send[d] # <<>> /\ send[d][Len(send[d])] = AgentUpdateBytes

\* C10 (as claimed): a subscription update with a non-empty topic list T leaves the
\* client's topic set equal to exactly T, so that a message whose type is not in T
\* (T without "all") is no longer delivered to it.
C10_SubscribeReplaces ==
    [][\A c \in Clients, in \in Inbound :
        (ReadMessage(c, in) /\ in.parses /\ Len(in.Topics) > 0) =>
            topics'[c] = Range(in.Topics)]_vars

-----------------------------------------------------------------------------
(* The doctor checks: the stores they read.  A store is addressed by its   *)
(* .beads directory.  The beads package is not part of the sources read    *)
(* here; List, Show, ParseAttachmentFields, DetachMolecule and             *)
(* CloseWithReason follow the store interface of the specification.        *)

TownRoot == "/gt"
TownBeadsDir == TownRoot \o "/.beads"
RigBeadsDir == TownRoot \o "/acme/.beads"
MayorBeadsDir == TownRoot \o "/mayor/.beads"

StatusPinned == "pinned"
StatusOK == "ok"
StatusError == "error"

NoAttachment == [isNil |-> TRUE, AttachedMolecule |-> ""]
Attached(id) == [isNil |-> FALSE, AttachedMolecule |-> id]
Issue(id, title, status, attachment) ==
    [ID |-> id, Title |-> title, Status |-> status, attachment |-> attachment,
     CloseReason |-> ""]
ZeroIssue == Issue("", "", "", NoAttachment)

\* b.List(ListOptions{Status: status}): the issues of that status in the
\* store's order, or an error
List(b, status) ==
    IF ~b.listable THEN [err |-> TRUE, issues |-> <<>>]
    ELSE [err |-> FALSE,
          issues |-> SelectSeq(b.issues, LAMBDA i : i.Status = status)]

\* b.Show(id): the issue, or not found
Show(b, id) ==
    LET found == SelectSeq(b.issues, LAMBDA i : i.ID = id)
    IN  IF found = <<>> THEN [err |-> TRUE, issue |-> ZeroIssue]
        ELSE [err |-> FALSE, issue |-> found[1]]

\* beads.ParseAttachmentFields(issue): the attachment fields, nil when the
\* issue carries none
ParseAttachmentFields(issue) == issue.attachment

\* b.DetachMolecule(pinnedBeadID): clears the attachment of that issue
DetachMolecule(b, pinnedBeadID) ==
    IF ~b.writable \/ Show(b, pinnedBeadID).err THEN [err |-> TRUE, b |-> b]
    ELSE [err |-> FALSE,
          b |-> [b EXCEPT !.issues =
                    [n \in DOMAIN b.issues |->
                        IF b.issues[n].ID = pinnedBeadID
                        THEN [b.issues[n] EXCEPT !.attachment = NoAttachment]
                        ELSE b.issues[n]]]]

\* b.CloseWithReason(reason, ids...): closes the issues named
CloseWithReason(b, reason, ids) ==
    IF ~b.writable \/ (\E n \in DOMAIN ids : Show(b, ids[n]).err)
    THEN [err |-> TRUE, b |-> b]
    ELSE [err |-> FALSE,
          b |-> [b EXCEPT !.issues =
                    [n \in DOMAIN b.issues |->
                        IF b.issues[n].ID \in Range(ids)
                        THEN [b.issues[n] EXCEPT !.Status = "closed",
                                                 !.CloseReason = reason]
                        ELSE b.issues[n]]]]

\* strings.Contains(s, sub)
Contains(s, sub) ==
    \E n \in 1..Len(s) :
        n + Len(sub) - 1 <= Len(s) /\ SubSeq(s, n, n + Len(sub) - 1) = sub

\* strings.HasSuffix(s, suffix)
HasSuffix(s, suffix) ==
    Len(s) >= Len(suffix) /\ SubSeq(s, Len(s) - Len(suffix) + 1, Len(s)) = suffix

\* findRigBeadsDirs: the lines of find's output, without the town-level
\* directory and without anything under a mayor directory; nil when find fails
FindRigBeadsDirs(out, townRoot) ==
    IF out.err THEN <<>>
    ELSE SelectSeq(out.lines,
                   LAMBDA line : /\ line # ""
                                 /\ line # townRoot \o "/.beads"
                                 /\ ~Contains(line, "/mayor/"))

\* the directories one Run scans, in its order
ScannedDirs(out, townRoot) ==
    <<townRoot \o "/.beads">> \o FindRigBeadsDirs(out, townRoot)

-----------------------------------------------------------------------------
(* HookAttachmentValidCheck                                                *)

invalidAttachment(id, dir, mol, reason) ==
    [pinnedBeadID |-> id, pinnedBeadDir |-> dir, moleculeID |-> mol,
     reason |-> reason]

\* the loop of checkBeadsDir over the pinned beads listed
RECURSIVE AttachmentScanNoStatus(_, _, _)
AttachmentScanNoStatus(b, beadsDir, pinnedBeads) ==
    IF pinnedBeads = <<>> THEN <<>>
    ELSE LET pinnedBead == Head(pinnedBeads)
             attachment == ParseAttachmentFields(pinnedBead)
             rest == AttachmentScanNoStatus(b, beadsDir, Tail(pinnedBeads))
         IN  IF attachment.isNil \/ attachment.AttachedMolecule = "" THEN rest
             ELSE IF Show(b, attachment.AttachedMolecule).err
                  THEN <<invalidAttachment(pinnedBead.ID, beadsDir,
                             attachment.AttachedMolecule, "not_found")>> \o rest
                  ELSE rest

RECURSIVE AttachmentScan(_, _, _)
AttachmentScan(b, beadsDir, pinnedBeads) ==
    IF pinnedBeads = <<>> THEN <<>>
    ELSE LET pinnedBead == Head(pinnedBeads)
             attachment == ParseAttachmentFields(pinnedBead)
             rest == AttachmentScan(b, beadsDir, Tail(pinnedBeads))
         IN  IF attachment.isNil \/ attachment.AttachedMolecule = "" THEN rest
             ELSE LET shown == Show(b, attachment.AttachedMolecule)
                  IN  IF shown.err
                      THEN <<invalidAttachment(pinnedBead.ID, beadsDir,
                                 attachment.AttachedMolecule, "not_found")>> \o rest
                      ELSE IF shown.issue.Status = "closed"
                      THEN <<invalidAttachment(pinnedBead.ID, beadsDir,
                                 attachment.AttachedMolecule, "closed")>> \o rest
                      ELSE rest

\* HookAttachmentValidCheck.checkBeadsDir
AttachmentCheckBeadsDir(dirs, beadsDir) ==
    LET b == dirs[beadsDir]
        listed == List(b, StatusPinned)
    IN  IF listed.err THEN <<>>
        ELSE AttachmentScan(b, beadsDir, listed.issues)

\* formatInvalid
FormatInvalid(inv) ==
    inv.pinnedBeadID \o ": attached molecule " \o inv.moleculeID \o " "
        \o (IF inv.reason = "closed" THEN "is closed" ELSE "not found")

\* a Run that gives up at the first directory whose pinned beads it cannot list
RECURSIVE AttachmentCheckAllAbort(_, _)
AttachmentCheckAllAbort(dirs, scanned) ==
    IF scanned = <<>> THEN <<>>
    ELSE IF List(dirs[Head(scanned)], StatusPinned).err THEN <<>>
    ELSE AttachmentCheckBeadsDir(dirs, Head(scanned))
             \o AttachmentCheckAllAbort(dirs, Tail(scanned))

\* the invalid attachments of the directories scanned, in scan order
RECURSIVE AttachmentCheckAll(_, _)
AttachmentCheckAll(dirs, scanned) ==
    IF scanned = <<>> THEN <<>>
    ELSE AttachmentCheckBeadsDir(dirs, Head(scanned))
             \o AttachmentCheckAll(dirs, Tail(scanned))

\* HookAttachmentValidCheck.Run
AttachmentRunResult(invalid) ==
    IF Len(invalid) = 0
    THEN [Name |-> "hook-attachment-valid", Status |-> StatusOK, Found |-> 0,
          Details |-> <<>>]
    ELSE [Name |-> "hook-attachment-valid", Status |-> StatusError,
          Found |-> Len(invalid),
          Details |-> [n \in DOMAIN invalid |-> FormatInvalid(invalid[n])]]

\* the last three calls made on the checks: which check, and how the call ended
Called(ph, check, call) ==
    IF Len(ph) < 3 THEN Append(ph, <<check, call>>)
    ELSE <<ph[2], ph[3], <<check, call>>>>

AttachmentRun ==
    LET invalid == AttachmentCheckAll(beadsDirs, ScannedDirs(findOutput, TownRoot))
    IN  /\ invalidAttachments' = invalid
        /\ result' = AttachmentRunResult(invalid)
        /\ phase' = Called(phase, "hook-attachment-valid",
                           IF invalid = <<>> THEN "run_ok" ELSE "run_err")
        /\ UNCHANGED <<beadsDirs, findOutput, duplicates, fixErr,
                       nonDoctorVars>>

\* the loop of Fix: the stores after it, and the failures collected
RECURSIVE AttachmentFixLoopWrongID(_, _)
AttachmentFixLoopWrongID(dirs, invs) ==
    IF invs = <<>> THEN [dirs |-> dirs, errors |-> <<>>]
    ELSE LET inv == Head(invs)
             detached == DetachMolecule(dirs[inv.pinnedBeadDir], inv.moleculeID)
             after == [dirs EXCEPT ![inv.pinnedBeadDir] = detached.b]
             rest == AttachmentFixLoopWrongID(after, Tail(invs))
         IN  IF detached.err
             THEN [rest EXCEPT !.errors =
                      <<"failed to detach from " \o inv.pinnedBeadID>> \o @]
             ELSE rest

\* a loop that returns at the first detach that fails
RECURSIVE AttachmentFixLoopStopAtFailure(_, _)
AttachmentFixLoopStopAtFailure(dirs, invs) ==
    IF invs = <<>> THEN [dirs |-> dirs, errors |-> <<>>]
    ELSE LET inv == Head(invs)
             detached == DetachMolecule(dirs[inv.pinnedBeadDir], inv.pinnedBeadID)
             after == [dirs EXCEPT ![inv.pinnedBeadDir] = detached.b]
         IN  IF detached.err
             THEN [dirs |-> dirs,
                   errors |-> <<"failed to detach from " \o inv.pinnedBeadID>>]
             ELSE AttachmentFixLoopStopAtFailure(after, Tail(invs))

RECURSIVE AttachmentFixLoopStrict(_, _)
AttachmentFixLoopStrict(dirs, invs) ==
    IF invs = <<>> THEN [dirs |-> dirs, errors |-> <<>>]
    ELSE LET inv == Head(invs)
             shown == Show(dirs[inv.pinnedBeadDir], inv.pinnedBeadID)
             detached == IF ~shown.err /\ shown.issue.attachment = NoAttachment
                         THEN [err |-> TRUE, b |-> dirs[inv.pinnedBeadDir]]
                         ELSE DetachMolecule(dirs[inv.pinnedBeadDir], inv.pinnedBeadID)
             after == [dirs EXCEPT ![inv.pinnedBeadDir] = detached.b]
             rest == AttachmentFixLoopStrict(after, Tail(invs))
         IN  IF detached.err
             THEN [rest EXCEPT !.errors =
                      <<"failed to detach from " \o inv.pinnedBeadID>> \o @]
             ELSE rest

RECURSIVE AttachmentFixLoop(_, _)
AttachmentFixLoop(dirs, invs) ==
    IF invs = <<>> THEN [dirs |-> dirs, errors |-> <<>>]
    ELSE LET inv == Head(invs)
             detached == DetachMolecule(dirs[inv.pinnedBeadDir], inv.pinnedBeadID)
             after == [dirs EXCEPT ![inv.pinnedBeadDir] = detached.b]
             rest == AttachmentFixLoop(after, Tail(invs))
         IN  IF detached.err
             THEN [rest EXCEPT !.errors =
                      <<"failed to detach from " \o inv.pinnedBeadID>> \o @]
             ELSE rest

\* a Fix that scans the stores again instead of using the cached findings
AttachmentFixRescan ==
    LET fixed == AttachmentFixLoop(beadsDirs,
                     AttachmentCheckAll(beadsDirs, ScannedDirs(findOutput, TownRoot)))
    IN  /\ beadsDirs' = fixed.dirs
        /\ fixErr' = fixed.errors
        /\ phase' = Called(phase, "hook-attachment-valid",
                           IF fixed.errors = <<>> THEN "fix_ok" ELSE "fix_err")
        /\ UNCHANGED <<findOutput, invalidAttachments, duplicates, result,
                       nonDoctorVars>>

\* HookAttachmentValidCheck.Fix
AttachmentFix ==
    LET fixed == AttachmentFixLoop(beadsDirs, invalidAttachments)
    IN  /\ beadsDirs' = fixed.dirs
        /\ fixErr' = fixed.errors
        /\ phase' = Called(phase, "hook-attachment-valid",
                           IF fixed.errors = <<>> THEN "fix_ok" ELSE "fix_err")
        /\ UNCHANGED <<findOutput, invalidAttachments, duplicates, result,
                       nonDoctorVars>>

-----------------------------------------------------------------------------
(* SpecAttach: Run and Fix of the attachment check on a town store and one *)
(* rig store, with molecules closed from outside in between.               *)

NoResult == [Name |-> "", Status |-> "", Found |-> 0, Details |-> <<>>]

Molecules(id) ==
    {<<>>, <<Issue(id, "Molecule", "open", NoAttachment)>>,
           <<Issue(id, "Molecule", "closed", NoAttachment)>>}

Attachments(id) == {NoAttachment, Attached(""), Attached(id)}

\* the mayor's own store, which no check looks into
MayorStore ==
    [listable |-> TRUE, writable |-> TRUE,
     issues |-> <<Issue("my-1", "Mayor Handoff", StatusPinned, Attached("my-404")),
                  Issue("my-2", "Mayor Handoff", StatusPinned, NoAttachment)>>]

AttachTownStores ==
    {[listable |-> l, writable |-> TRUE,
      issues |-> <<Issue("hq-1", "Mayor Handoff", st, att)>> \o mol] :
        l \in BOOLEAN, st \in {StatusPinned, "open"},
        att \in Attachments("hq-9"), mol \in Molecules("hq-9")}

AttachRigStores ==
    {[listable |-> f[1], writable |-> f[2],
      issues |-> <<Issue("gt-1", "Polecat Handoff", st1, att1),
                   Issue("gt-2", "Witness Handoff", StatusPinned, att2)>> \o mol] :
        f \in {<<TRUE, TRUE>>, <<TRUE, FALSE>>, <<FALSE, TRUE>>},
        st1 \in {StatusPinned, "open"},
        att1 \in Attachments("gt-9"),
        att2 \in Attachments("gt-9") \cup {Attached("gt-404")},
        mol \in Molecules("gt-9")}

FindOutputs ==
    {[err |-> TRUE, lines |-> <<>>],
     [err |-> FALSE, lines |-> <<TownBeadsDir, MayorBeadsDir, RigBeadsDir>>]}

BeadsDirNames == {TownBeadsDir, MayorBeadsDir, RigBeadsDir}

InitAttach ==
    /\ \E town \in AttachTownStores, rig \in AttachRigStores :
           beadsDirs = [d \in BeadsDirNames |->
                           IF d = TownBeadsDir THEN town
                           ELSE IF d = RigBeadsDir THEN rig ELSE MayorStore]
    /\ findOutput \in FindOutputs
    /\ invalidAttachments = <<>>
    /\ duplicates = <<>>
    /\ result = NoResult
    /\ fixErr = <<>>
    /\ phase = <<>>
    /\ NonDoctorIdle

\* somebody else closes an open issue that is nobody's hook
CloseFromOutside(d) ==
    /\ \E n \in DOMAIN beadsDirs[d].issues :
          /\ beadsDirs[d].issues[n].Status = "open"
          /\ beadsDirs[d].issues[n].Title = "Molecule"
          /\ beadsDirs' = [beadsDirs EXCEPT ![d].issues[n].Status = "closed"]
    /\ phase' = <<>>
    /\ UNCHANGED <<findOutput, invalidAttachments, duplicates, result, fixErr,
                   nonDoctorVars>>

NextAttach ==
    \/ AttachmentRun
    \/ AttachmentFix
    \/ \E d \in {TownBeadsDir, RigBeadsDir} : CloseFromOutside(d)

SpecAttach == InitAttach /\ [][NextAttach]_vars

-----------------------------------------------------------------------------
(* HookSingletonCheck                                                      *)

duplicateHandoff(title, dir, ids) ==
    [title |-> title, beadsDir |-> dir, beadIDs |-> ids]

\* titleToIDs: the ids of the pinned beads with a handoff title, by title, in
\* the order listed
TitleToIDs(pinnedBeads) ==
    LET handoffs == SelectSeq(pinnedBeads, LAMBDA bead : HasSuffix(bead.Title, " Handoff"))
        idOf(bead) == bead.ID
        IDs(beadSeq) == [n \in DOMAIN beadSeq |-> beadSeq[n].ID]
    IN  [title \in {handoffs[n].Title : n \in DOMAIN handoffs} |->
            IDs(SelectSeq(handoffs, LAMBDA bead : bead.Title = title))]

\* the sequences that hold every element of S once: the orders in which a
\* range over a map can visit its keys
RECURSIVE Orders(_)
Orders(S) ==
    IF S = {} THEN {<<>>}
    ELSE UNION {{<<x>> \o rest : rest \in Orders(S \ {x})} : x \in S}

\* HookSingletonCheck.checkBeadsDir, titles visited in the given order
SingletonCheckBeadsDirKeepSingles(dirs, beadsDir, titleOrder) ==
    LET listed == List(dirs[beadsDir], StatusPinned)
        titleToIDs == TitleToIDs(listed.issues)
    IN  IF listed.err THEN <<>>
        ELSE [n \in DOMAIN titleOrder |->
                 duplicateHandoff(titleOrder[n], beadsDir, titleToIDs[titleOrder[n]])]

SingletonCheckBeadsDir(dirs, beadsDir, titleOrder) ==
    LET listed == List(dirs[beadsDir], StatusPinned)
        titleToIDs == TitleToIDs(listed.issues)
        multiple == SelectSeq(titleOrder, LAMBDA title : Len(titleToIDs[title]) > 1)
    IN  IF listed.err THEN <<>>
        ELSE [n \in DOMAIN multiple |->
                 duplicateHandoff(multiple[n], beadsDir, titleToIDs[multiple[n]])]

\* the orders in which checkBeadsDir can visit the titles of a directory
TitleOrders(dirs, beadsDir) ==
    LET listed == List(dirs[beadsDir], StatusPinned)
    IN  IF listed.err THEN {<<>>}
        ELSE Orders(DOMAIN TitleToIDs(listed.issues))

\* formatDuplicate: the title, the number of beads, the ids
FormatDuplicate(dup) == <<dup.title, Len(dup.beadIDs), dup.beadIDs>>

\* totalDups: the extras beyond the first of every group
RECURSIVE TotalDups(_)
TotalDups(dups) ==
    IF dups = <<>> THEN 0
    ELSE (Len(Head(dups).beadIDs) - 1) + TotalDups(Tail(dups))

SingletonRunResult(dups) ==
    IF Len(dups) = 0
    THEN [Name |-> "hook-singleton", Status |-> StatusOK, Found |-> 0,
          Details |-> <<>>]
    ELSE [Name |-> "hook-singleton", Status |-> StatusError,
          Found |-> TotalDups(dups),
          Details |-> [n \in DOMAIN dups |-> FormatDuplicate(dups[n])]]

\* the duplicates of the directories scanned, in scan order, for one choice
\* of the title orders
RECURSIVE SingletonCheckAll(_, _, _)
SingletonCheckAll(dirs, scanned, orderOf) ==
    IF scanned = <<>> THEN <<>>
    ELSE SingletonCheckBeadsDir(dirs, Head(scanned), orderOf[Head(scanned)])
             \o SingletonCheckAll(dirs, Tail(scanned), orderOf)

\* HookSingletonCheck.Run
SingletonRun ==
    \E townOrder \in TitleOrders(beadsDirs, TownBeadsDir),
       rigOrder \in TitleOrders(beadsDirs, RigBeadsDir),
       mayorOrder \in TitleOrders(beadsDirs, MayorBeadsDir) :
        /\ LET orderOf == [d \in BeadsDirNames |->
                              IF d = TownBeadsDir THEN townOrder
                              ELSE IF d = RigBeadsDir THEN rigOrder ELSE mayorOrder]
               dups == SingletonCheckAll(beadsDirs,
                           ScannedDirs(findOutput, TownRoot), orderOf)
           IN  /\ duplicates' = dups
               /\ result' = SingletonRunResult(dups)
               /\ phase' = Called(phase, "hook-singleton",
                                  IF dups = <<>> THEN "run_ok" ELSE "run_err")
        /\ UNCHANGED <<beadsDirs, findOutput, invalidAttachments, fixErr,
                       nonDoctorVars>>

\* the loop of Fix: the stores after it, and the failures collected
RECURSIVE SingletonFixLoopCloseAll(_, _)
SingletonFixLoopCloseAll(dirs, dups) ==
    IF dups = <<>> THEN [dirs |-> dirs, errors |-> <<>>]
    ELSE LET dup == Head(dups)
             toClose == dup.beadIDs
             closed == CloseWithReason(dirs[dup.beadsDir], "duplicate handoff bead", toClose)
             after == [dirs EXCEPT ![dup.beadsDir] = closed.b]
             rest == SingletonFixLoopCloseAll(after, Tail(dups))
         IN  IF closed.err
             THEN [rest EXCEPT !.errors =
                      <<"failed to close duplicates for " \o dup.title>> \o @]
             ELSE rest

RECURSIVE SingletonFixLoop(_, _)
SingletonFixLoop(dirs, dups) ==
    IF dups = <<>> THEN [dirs |-> dirs, errors |-> <<>>]
    ELSE LET dup == Head(dups)
             toClose == Tail(dup.beadIDs)
             closed == IF Len(toClose) > 0
                       THEN CloseWithReason(dirs[dup.beadsDir],
                                "duplicate handoff bead", toClose)
                       ELSE [err |-> FALSE, b |-> dirs[dup.beadsDir]]
             after == [dirs EXCEPT ![dup.beadsDir] = closed.b]
             rest == SingletonFixLoop(after, Tail(dups))
         IN  IF closed.err
             THEN [rest EXCEPT !.errors =
                      <<"failed to close duplicates for " \o dup.title>> \o @]
             ELSE rest

\* HookSingletonCheck.Fix
SingletonFix ==
    LET fixed == SingletonFixLoop(beadsDirs, duplicates)
    IN  /\ beadsDirs' = fixed.dirs
        /\ fixErr' = fixed.errors
        /\ phase' = Called(phase, "hook-singleton",
                           IF fixed.errors = <<>> THEN "fix_ok" ELSE "fix_err")
        /\ UNCHANGED <<findOutput, invalidAttachments, duplicates, result,
                       nonDoctorVars>>

-----------------------------------------------------------------------------
(* SpecSingleton: Run and Fix of the singleton check on a town store and   *)
(* one rig store, with handoff records pinned from outside in between.     *)

HandoffTitles == {"Polecat Handoff", "Witness Handoff"}

SingletonTownStores ==
    {[listable |-> l, writable |-> TRUE,
      issues |-> <<Issue("hq-1", t1, StatusPinned, NoAttachment),
                   Issue("hq-2", t2, StatusPinned, NoAttachment)>>] :
        l \in BOOLEAN, t1 \in HandoffTitles, t2 \in HandoffTitles}

SingletonRigStores ==
    {[listable |-> f[1], writable |-> f[2],
      issues |-> <<Issue("gt-a", ta, StatusPinned, NoAttachment),
                   Issue("gt-b", tb, sb, NoAttachment),
                   Issue("gt-c", tc, sc, NoAttachment)>>] :
        f \in {<<TRUE, TRUE>>, <<TRUE, FALSE>>, <<FALSE, TRUE>>},
        ta \in HandoffTitles \cup {"Handoff"},
        tb \in HandoffTitles \cup {"Handoff"},
        tc \in HandoffTitles \cup {"Handoff"},
        sb \in {StatusPinned, "open"}, sc \in {StatusPinned, "open"}}

InitSingleton ==
    /\ \E town \in SingletonTownStores, rig \in SingletonRigStores :
           beadsDirs = [d \in BeadsDirNames |->
                           IF d = TownBeadsDir THEN town
                           ELSE IF d = RigBeadsDir THEN rig ELSE MayorStore]
    /\ findOutput \in FindOutputs
    /\ invalidAttachments = <<>>
    /\ duplicates = <<>>
    /\ result = NoResult
    /\ fixErr = <<>>
    /\ phase = <<>>
    /\ NonDoctorIdle

\* somebody else pins an open record
PinFromOutside(d) ==
    /\ \E n \in DOMAIN beadsDirs[d].issues :
          /\ beadsDirs[d].issues[n].Status = "open"
          /\ beadsDirs' = [beadsDirs EXCEPT ![d].issues[n].Status = StatusPinned]
    /\ phase' = <<>>
    /\ UNCHANGED <<findOutput, invalidAttachments, duplicates, result, fixErr,
                   nonDoctorVars>>

NextSingleton ==
    \/ SingletonRun
    \/ SingletonFix
    \/ \E d \in {TownBeadsDir, RigBeadsDir} : PinFromOutside(d)

SpecSingleton == InitSingleton /\ [][NextSingleton]_vars

-----------------------------------------------------------------------------
(* Claims about the doctor checks.                                         *)

\* how the last calls ended, oldest first
Outcomes == [n \in DOMAIN phase |-> phase[n][2]]
LastCall == IF phase = <<>> THEN "" ELSE Outcomes[Len(phase)]

\* the partitions of the town: its own store and the rig stores discovered
PartitionDirs == Range(ScannedDirs(findOutput, TownRoot))

PinnedIn(d) ==
    {beadsDirs[d].issues[n] : n \in {m \in DOMAIN beadsDirs[d].issues :
                                        beadsDirs[d].issues[m].Status = StatusPinned}}

\* what is wrong with the attachment of a pinned record of partition d: ""
\* when nothing is
ViolationKind(d, rec) ==
    LET mol == rec.attachment.AttachedMolecule
        resolved == {i \in Range(beadsDirs[d].issues) : i.ID = mol}
    IN  IF rec.attachment.isNil \/ mol = "" THEN ""
        ELSE IF resolved = {} THEN "not_found"
        ELSE IF \E i \in resolved : i.Status = "closed" THEN "closed"
        ELSE ""

ReportsOf(d, id) ==
    {n \in DOMAIN invalidAttachments :
        /\ invalidAttachments[n].pinnedBeadDir = d
        /\ invalidAttachments[n].pinnedBeadID = id}

\* C11: right after a Run of the attachment check, for every listable
\* partition a pinned record is reported iff its attached-molecule reference
\* is non-empty and either does not resolve in that partition (not_found) or
\* resolves to a closed issue (closed); a violating record is reported once,
\* with that one kind, and nothing else is reported.
C11_AttachmentRunExact ==
    LastCall \in {"run_ok", "run_err"} =>
        /\ \A d \in PartitionDirs : beadsDirs[d].listable =>
              \A rec \in PinnedIn(d) :
                  LET kind == ViolationKind(d, rec)
                      reports == ReportsOf(d, rec.ID)
                  IN  IF kind = "" THEN reports = {}
                      ELSE /\ Cardinality(reports) = 1
                           /\ \A n \in reports :
                                 /\ invalidAttachments[n].reason = kind
                                 /\ invalidAttachments[n].moleculeID =
                                        rec.attachment.AttachedMolecule
        /\ \A n \in DOMAIN invalidAttachments :
              LET inv == invalidAttachments[n]
              IN  /\ inv.pinnedBeadDir \in PartitionDirs
                  /\ beadsDirs[inv.pinnedBeadDir].listable
                  /\ \E rec \in PinnedIn(inv.pinnedBeadDir) : rec.ID = inv.pinnedBeadID
        /\ result.Status = (IF invalidAttachments = <<>> THEN StatusOK ELSE StatusError)
        /\ result.Found = Len(invalidAttachments)

\* a Run that reported one record as closed and another as not_found, and
\* passed over a pinned record whose molecule is open
C11_Witness ==
    /\ LastCall = "run_err"
    /\ \E n \in DOMAIN invalidAttachments : invalidAttachments[n].reason = "closed"
    /\ \E n \in DOMAIN invalidAttachments : invalidAttachments[n].reason = "not_found"
    /\ \E d \in PartitionDirs : \E rec \in PinnedIn(d) :
          /\ beadsDirs[d].listable
          /\ ~rec.attachment.isNil /\ rec.attachment.AttachedMolecule # ""
          /\ ViolationKind(d, rec) = ""

\* C12: when a Run of the attachment check has reported violations and the
\* Fix that follows returns no error, the next Run (the store not touched
\* from outside in between) reports no violation and status ok.
C12_AttachmentRepairConverges ==
    (/\ Len(phase) = 3
     /\ Outcomes[1] = "run_err" /\ Outcomes[2] = "fix_ok"
     /\ Outcomes[3] \in {"run_ok", "run_err"}) =>
        /\ Outcomes[3] = "run_ok"
        /\ invalidAttachments = <<>>
        /\ result.Status = StatusOK

\* Run found violations, Fix detached them without error, Run found none
C12_Witness ==
    /\ Outcomes = <<"run_err", "fix_ok", "run_ok">>
    /\ result.Status = StatusOK
    /\ \E d \in PartitionDirs : \E i \in Range(beadsDirs[d].issues) :
          i.Status = "closed" /\ i.Title = "Molecule"

\* the ids of the pinned records of partition d titled t, in the store's order
PinnedTitled(d, t) ==
    LET recs == SelectSeq(beadsDirs[d].issues,
                          LAMBDA i : i.Status = StatusPinned /\ i.Title = t)
    IN  [n \in DOMAIN recs |-> recs[n].ID]

GroupsOf(d, t) ==
    {n \in DOMAIN duplicates :
        duplicates[n].beadsDir = d /\ duplicates[n].title = t}

AllTitles == HandoffTitles \cup {"Handoff", "Mayor Handoff"}

\* C13: right after a Run of the singleton check, the groups flagged are,
\* partition by partition, exactly the titles ending in " Handoff" that more
\* than one pinned record of that partition carries; a group lists its records
\* in the store's order, the first being kept and the others counted as
\* duplicates; other titles, and equal titles in different partitions, are not
\* flagged.
C13_SingletonRunExact ==
    LastCall \in {"run_ok", "run_err"} =>
        /\ \A d \in PartitionDirs : beadsDirs[d].listable =>
              \A t \in AllTitles :
                  IF t \in HandoffTitles \cup {"Mayor Handoff"} /\ Len(PinnedTitled(d, t)) > 1
                  THEN /\ Cardinality(GroupsOf(d, t)) = 1
                       /\ \A n \in GroupsOf(d, t) :
                             duplicates[n].beadIDs = PinnedTitled(d, t)
                  ELSE GroupsOf(d, t) = {}
        /\ \A n \in DOMAIN duplicates :
              /\ duplicates[n].beadsDir \in PartitionDirs
              /\ beadsDirs[duplicates[n].beadsDir].listable
              /\ duplicates[n].title \in AllTitles
        /\ result.Status = (IF duplicates = <<>> THEN StatusOK ELSE StatusError)
        /\ result.Found =
              Cardinality({<<n, m>> \in (DOMAIN duplicates) \X (1..3) :
                              1 < m /\ m <= Len(duplicates[n].beadIDs)})

\* three pinned "Polecat Handoff" records in the rig store: one group, the
\* second and third counted; the town store's single "Polecat Handoff" record
\* is in no group
C13_Witness ==
    /\ LastCall = "run_err"
    /\ duplicates = <<duplicateHandoff("Polecat Handoff", RigBeadsDir,
                                       <<"gt-a", "gt-b", "gt-c">>)>>
    /\ result.Found = 2
    /\ Len(PinnedTitled(TownBeadsDir, "Polecat Handoff")) = 1
    /\ beadsDirs[TownBeadsDir].listable

\* the record of partition d with that id
Record(d, id) == CHOOSE i \in Range(beadsDirs[d].issues) : i.ID = id

FixedAfterRun ==
    /\ Len(phase) >= 2
    /\ Outcomes[Len(phase)] = "fix_ok"
    /\ Outcomes[Len(phase) - 1] \in {"run_ok", "run_err"}

\* a successful Fix has closed every member but the first of each group
FirstKeptRestClosed ==
    \A n \in DOMAIN duplicates :
        LET dup == duplicates[n]
        IN  /\ Record(dup.beadsDir, dup.beadIDs[1]).Status = StatusPinned
            /\ \A m \in 2..Len(dup.beadIDs) :
                  /\ Record(dup.beadsDir, dup.beadIDs[m]).Status = "closed"
                  /\ Record(dup.beadsDir, dup.beadIDs[m]).CloseReason =
                         "duplicate handoff bead"

RerunAfterFix ==
    /\ Len(phase) = 3
    /\ Outcomes[1] \in {"run_ok", "run_err"} /\ Outcomes[2] = "fix_ok"
    /\ Outcomes[3] \in {"run_ok", "run_err"}

\* C14 as stated: after Run and a successful Fix every partition has at most
\* one pinned record per handoff title, the first of each flagged group being
\* the one left pinned, and the next Run reports ok.
C14_EveryPartitionSingleton ==
    /\ FixedAfterRun =>
          /\ FirstKeptRestClosed
          /\ \A d \in PartitionDirs : \A t \in HandoffTitles :
                Len(PinnedTitled(d, t)) <= 1
    /\ RerunAfterFix => result.Status = StatusOK

\* C14, amended: after Run and a successful Fix every partition whose pinned
\* records Run could list has at most one pinned record per handoff title, the
\* first of each flagged group being the one left pinned and the others
\* closed, and the next Run reports ok.
C14_ListedPartitionsSingleton ==
    /\ FixedAfterRun =>
          /\ FirstKeptRestClosed
          /\ \A d \in PartitionDirs : beadsDirs[d].listable =>
                \A t \in HandoffTitles : Len(PinnedTitled(d, t)) <= 1
    /\ RerunAfterFix => result.Status = StatusOK /\ duplicates = <<>>

\* Run flagged A, B, C of the rig store, Fix closed B and C and left A pinned,
\* and the next Run found nothing
C14_Witness ==
    /\ Outcomes = <<"run_err", "fix_ok", "run_ok">>
    /\ Record(RigBeadsDir, "gt-a").Status = StatusPinned
    /\ Record(RigBeadsDir, "gt-b").CloseReason = "duplicate handoff bead"
    /\ Record(RigBeadsDir, "gt-c").CloseReason = "duplicate handoff bead"
    /\ result.Status = StatusOK

-----------------------------------------------------------------------------
(* SpecDoctor: both checks on the same stores, their Runs and Fixes in any *)
(* order, as a doctor session that runs one check after the other.         *)

DoctorTownStores ==
    {[listable |-> l, writable |-> TRUE,
      issues |-> <<Issue("hq-1", "Mayor Handoff", StatusPinned, Attached("hq-404")),
                   Issue("hq-2", "Mayor Handoff", StatusPinned, NoAttachment)>>] :
        l \in BOOLEAN}

DoctorRigStores ==
    {[listable |-> TRUE, writable |-> w,
      issues |-> <<Issue("gt-a", "Polecat Handoff", StatusPinned, atta),
                   Issue("gt-b", tb, StatusPinned, NoAttachment),
                   Issue("gt-c", "Polecat Handoff", StatusPinned, attc)>> \o mol] :
        w \in BOOLEAN, tb \in HandoffTitles,
        atta \in Attachments("gt-9"), attc \in Attachments("gt-9"),
        mol \in Molecules("gt-9")}

InitDoctor ==
    /\ \E town \in DoctorTownStores, rig \in DoctorRigStores :
           beadsDirs = [d \in BeadsDirNames |->
                           IF d = TownBeadsDir THEN town
                           ELSE IF d = RigBeadsDir THEN rig ELSE MayorStore]
    /\ findOutput \in FindOutputs
    /\ invalidAttachments = <<>>
    /\ duplicates = <<>>
    /\ result = NoResult
    /\ fixErr = <<>>
    /\ phase = <<>>
    /\ NonDoctorIdle

NextDoctor ==
    \/ AttachmentRun
    \/ AttachmentFix
    \/ SingletonRun
    \/ SingletonFix

SpecDoctor == InitDoctor /\ [][NextDoctor]_vars

LastEntry == IF phase = <<>> THEN <<"", "">> ELSE phase[Len(phase)]

-----------------------------------------------------------------------------
(* StatusHandler.buildStatus: what one call reads.                         *)

StatusRigNames == <<"acme", "beta">>

\* rig.Rig values DiscoverRigs can return for the n-th rig
StatusRigShapes(n) ==
    IF n = 1
    THEN [Name : {StatusRigNames[1]}, Path : {TownRoot \o "/" \o StatusRigNames[1]},
          Polecats : {<<>>, <<"fox", "owl">>}, Crew : {<<>>, <<"max">>},
          HasWitness : BOOLEAN, HasRefinery : BOOLEAN]
    ELSE [Name : {StatusRigNames[2]}, Path : {TownRoot \o "/" \o StatusRigNames[2]},
          Polecats : {<<>>, <<"fox", "owl">>}, Crew : {<<>>},
          HasWitness : BOOLEAN, HasRefinery : {FALSE}]

StatusRigLists ==
    {<<>>} \cup {<<r1>> : r1 \in StatusRigShapes(1)}
           \cup {<<r1, r2>> : r1 \in StatusRigShapes(1), r2 \in StatusRigShapes(2)}

\* the agent beads of the rigs' stores: which agents have a hook, the hook id
\* held in the HookBead field or only in the description
StatusAgentBeads ==
    LET field == [HookBead |-> "gt-42", ParsedHookBead |-> Nil, AgentState |-> "working"]
        parsed == [HookBead |-> "", ParsedHookBead |-> "gt-7", AgentState |-> ""]
        idle == [HookBead |-> "", ParsedHookBead |-> Nil, AgentState |-> "done"]
        none == [isNil |-> TRUE, beads |-> [a \in {} |-> Nil]]
    IN  {[rn \in Range(StatusRigNames) |-> none],
         [rn \in Range(StatusRigNames) |->
             IF rn = "acme"
             THEN [isNil |-> FALSE, beads |-> [a \in {"acme/fox", "acme/owl"} |->
                                                 IF a = "acme/fox" THEN field ELSE idle]]
             ELSE none],
         [rn \in Range(StatusRigNames) |->
             IF rn = "acme"
             THEN [isNil |-> FALSE, beads |-> [a \in {"acme/max"} |-> parsed]]
             ELSE [isNil |-> FALSE, beads |-> [a \in {"beta/owl"} |-> field]]],
         [rn \in Range(StatusRigNames) |->
             IF rn = "acme"
             THEN [isNil |-> FALSE, beads |-> [a \in {"acme/fox", "acme/max"} |->
                                                 IF a = "acme/fox" THEN field ELSE parsed]]
             ELSE [isNil |-> FALSE, beads |-> [a \in {"beta/owl", "beta/fox"} |-> field]]]}

StatusHookStores ==
    [Range(StatusRigNames) -> {[i \in {"gt-42"} |-> [Title |-> "Fix login bug"]]}]

\* a mailbox: GetMailbox fails, or Count gives the unread number
Mailboxes == {[err |-> TRUE, unread |-> 0], [err |-> FALSE, unread |-> 2]}

StatusWorlds ==
    [townConfigOK : BOOLEAN, rigsConfigOK : BOOLEAN, discoverOK : BOOLEAN,
     townName : {"gastown"},
     sessionList : {[err |-> TRUE, names |-> {}],
                    [err |-> FALSE, names |-> {"gt-mayor", "gt-acme-fox", "gt-acme-witness"}]},
     rigs : StatusRigLists,
     agentBeads : StatusAgentBeads,
     hookStore : StatusHookStores,
     overseerOK : {TRUE},
     mailbox : Mailboxes,
     fastMode : BOOLEAN]

\* filepath.Base(h.townRoot)
Base(path) ==
    LET slashes == {n \in 1..Len(path) : SubSeq(path, n, n) = "/"}
        lastSlash == CHOOSE n \in slashes : \A m \in slashes : m <= n
    IN  IF slashes = {} THEN path ELSE SubSeq(path, lastSlash + 1, Len(path))

-----------------------------------------------------------------------------
(* StatusHandler.buildStatus, discoverGlobalAgents, buildRigStatus         *)

AgentRuntime(name, address, session, role, running) ==
    [Name |-> name, Address |-> address, Session |-> session, Role |-> role,
     Running |-> running, HasWork |-> FALSE, WorkTitle |-> "", HookBead |-> "",
     State |-> "", UnreadMail |-> 0]

\* an unread count fetched whatever the mode
WithUnreadMailAlways(agent, mailbox, fastMode) ==
    IF ~mailbox.err THEN [agent EXCEPT !.UnreadMail = mailbox.unread]
    ELSE agent

\* if !fastMode, the unread count of the agent's mailbox, errors swallowed
WithUnreadMail(agent, mailbox, fastMode) ==
    IF ~fastMode /\ ~mailbox.err THEN [agent EXCEPT !.UnreadMail = mailbox.unread]
    ELSE agent

\* discoverGlobalAgents
DiscoverGlobalAgents(allSessions, mailbox, fastMode) ==
    LET global(name) ==
            IF ("gt-" \o name) \in allSessions
            THEN <<WithUnreadMail(AgentRuntime(name, name, "gt-" \o name, name, TRUE),
                                  mailbox, fastMode)>>
            ELSE <<>>
    IN  global("mayor") \o global("deacon")

\* one iteration of the polecat loop or of the crew loop of buildRigStatus
MemberAgent(r, name, role, allSessions, allAgentBeads, allHookBeads, mailbox, fastMode) ==
    LET session == SessionName(r.Name, name)
        address == Address(r.Name, name)
        agent == AgentRuntime(name, address, session, role, session \in allSessions)
        hooked ==
            IF address \in DOMAIN allAgentBeads
            THEN LET bead == allAgentBeads[address]
                     hookID == BeadHookID(bead)
                     withHook ==
                         IF hookID # ""
                         THEN [agent EXCEPT !.HasWork = TRUE, !.HookBead = hookID,
                                            !.WorkTitle = IF hookID \in DOMAIN allHookBeads
                                                          THEN allHookBeads[hookID].Title
                                                          ELSE ""]
                         ELSE agent
                 IN  [withHook EXCEPT !.State = bead.AgentState]
            ELSE agent
    IN  WithUnreadMail(hooked, mailbox, fastMode)

\* the number of activeHooks++ one of the two loops executes
HooksOf(agents) == Cardinality({n \in DOMAIN agents : agents[n].HasWork})

\* buildRigStatus: the RigStatus and the active hook count
BuildRigStatusPolecatHooksOnly(r, allSessions, allAgentBeads, allHookBeads, mailbox, fastMode) ==
    LET polecats == [n \in DOMAIN r.Polecats |->
                        MemberAgent(r, r.Polecats[n], "polecat", allSessions,
                                    allAgentBeads, allHookBeads, mailbox, fastMode)]
        crews == [n \in DOMAIN r.Crew |->
                        MemberAgent(r, r.Crew[n], "crew", allSessions,
                                    allAgentBeads, allHookBeads, mailbox, fastMode)]
        role(present, name) ==
            IF present
            THEN <<AgentRuntime(name, Address(r.Name, name), SessionName(r.Name, name),
                                name, SessionName(r.Name, name) \in allSessions)>>
            ELSE <<>>
    IN  [rs |-> [Name |-> r.Name, Path |-> r.Path,
                 Polecats |-> r.Polecats, PolecatCount |-> Len(r.Polecats),
                 Crews |-> r.Crew, CrewCount |-> Len(r.Crew),
                 HasWitness |-> r.HasWitness, HasRefinery |-> r.HasRefinery,
                 Agents |-> polecats \o crews \o role(r.HasWitness, "witness")
                                \o role(r.HasRefinery, "refinery")],
         hooks |-> HooksOf(polecats)]

BuildRigStatus(r, allSessions, allAgentBeads, allHookBeads, mailbox, fastMode) ==
    LET polecats == [n \in DOMAIN r.Polecats |->
                        MemberAgent(r, r.Polecats[n], "polecat", allSessions,
                                    allAgentBeads, allHookBeads, mailbox, fastMode)]
        crews == [n \in DOMAIN r.Crew |->
                        MemberAgent(r, r.Crew[n], "crew", allSessions,
                                    allAgentBeads, allHookBeads, mailbox, fastMode)]
        role(present, name) ==
            IF present
            THEN <<AgentRuntime(name, Address(r.Name, name), SessionName(r.Name, name),
                                name, SessionName(r.Name, name) \in allSessions)>>
            ELSE <<>>
    IN  [rs |-> [Name |-> r.Name, Path |-> r.Path,
                 Polecats |-> r.Polecats, PolecatCount |-> Len(r.Polecats),
                 Crews |-> r.Crew, CrewCount |-> Len(r.Crew),
                 HasWitness |-> r.HasWitness, HasRefinery |-> r.HasRefinery,
                 Agents |-> polecats \o crews \o role(r.HasWitness, "witness")
                                \o role(r.HasRefinery, "refinery")],
         hooks |-> HooksOf(polecats) + HooksOf(crews)]

ZeroRigStatus ==
    [Name |-> "", Path |-> "", Polecats |-> <<>>, PolecatCount |-> 0,
     Crews |-> <<>>, CrewCount |-> 0, HasWitness |-> FALSE, HasRefinery |-> FALSE,
     Agents |-> <<>>]

ZeroSummary ==
    [RigCount |-> 0, PolecatCount |-> 0, CrewCount |-> 0, WitnessCount |-> 0,
     RefineryCount |-> 0, ActiveHooks |-> 0]

\* the overseer of the status: nil when its configuration cannot be loaded or
\* detected, else its name and, if !fastMode, the unread count of its mailbox
NilOverseerInfo == [isNil |-> TRUE, Name |-> "", UnreadMail |-> 0]

LoadOverseer(overseerOK, mailbox, fastMode) ==
    IF overseerOK
    THEN WithUnreadMail([isNil |-> FALSE, Name |-> "overseer", UnreadMail |-> 0],
                        mailbox, fastMode)
    ELSE NilOverseerInfo

NilTownStatus ==
    [isNil |-> TRUE, Name |-> "", Location |-> "", Overseer |-> NilOverseerInfo,
     Agents |-> [isNil |-> TRUE, list |-> <<>>], Rigs |-> <<>>, Summary |-> ZeroSummary]

\* the two summary loops of buildStatus
RECURSIVE BuildSummary(_, _)
BuildSummary(rigStatuses, hooks) ==
    IF rigStatuses = <<>>
    THEN IF hooks = <<>> THEN ZeroSummary
         ELSE LET s == BuildSummary(<<>>, SubSeq(hooks, 1, Len(hooks) - 1))
              IN  [s EXCEPT !.ActiveHooks = @ + hooks[Len(hooks)]]
    ELSE LET rs == rigStatuses[Len(rigStatuses)]
             s == BuildSummary(SubSeq(rigStatuses, 1, Len(rigStatuses) - 1), hooks)
         IN  [s EXCEPT !.RigCount = @ + 1,
                       !.PolecatCount = @ + rs.PolecatCount,
                       !.CrewCount = @ + rs.CrewCount,
                       !.WitnessCount = @ + (IF rs.HasWitness THEN 1 ELSE 0),
                       !.RefineryCount = @ + (IF rs.HasRefinery THEN 1 ELSE 0)]

\* allSessions: empty when ListSessions fails
AllSessions(w) == IF w.sessionList.err THEN {} ELSE w.sessionList.names

-----------------------------------------------------------------------------
(* SpecStatus: one buildStatus call; the goroutines it starts finish in    *)
(* any order.                                                              *)

InitStatus ==
    /\ sworld \in StatusWorlds
    /\ spc = "called"
    /\ townStatus = NilTownStatus
    /\ rigActiveHooks = <<>>
    /\ pendingG = {}
    /\ NonStatusIdle

\* buildStatus up to wg.Wait: configuration, sessions, discovery, pre-fetch,
\* the empty TownStatus, and the goroutines started
BuildStart ==
    /\ spc = "called"
    /\ IF ~sworld.discoverOK
       THEN /\ spc' = "failed"
            /\ UNCHANGED <<townStatus, rigActiveHooks, pendingG>>
       ELSE /\ spc' = "waiting"
            /\ townStatus' =
                  [isNil |-> FALSE,
                   Name |-> IF sworld.townConfigOK THEN sworld.townName ELSE Base(TownRoot),
                   Location |-> TownRoot,
                   Overseer |-> LoadOverseer(sworld.overseerOK, sworld.mailbox,
                                             sworld.fastMode),
                   Agents |-> [isNil |-> TRUE, list |-> <<>>],
                   Rigs |-> [n \in DOMAIN sworld.rigs |-> ZeroRigStatus],
                   Summary |-> ZeroSummary]
            /\ rigActiveHooks' = [n \in DOMAIN sworld.rigs |-> 0]
            /\ pendingG' = {0} \cup DOMAIN sworld.rigs
    /\ UNCHANGED <<sworld, nonStatusVars>>

\* the goroutine that fetches the global agents
GlobalAgentsDone ==
    /\ spc = "waiting"
    /\ 0 \in pendingG
    /\ townStatus' = [townStatus EXCEPT !.Agents =
                         [isNil |-> FALSE,
                          list |-> DiscoverGlobalAgents(AllSessions(sworld),
                                       sworld.mailbox, sworld.fastMode)]]
    /\ pendingG' = pendingG \ {0}
    /\ UNCHANGED <<sworld, spc, rigActiveHooks, nonStatusVars>>

\* a rig goroutine that puts its result in the first slot not yet filled, as
\* an append to a shared slice would
RigDoneAppend(idx) ==
    /\ spc = "waiting"
    /\ idx \in pendingG
    /\ LET built == BuildRigStatus(sworld.rigs[idx], AllSessions(sworld),
                        AllAgentBeads(sworld, sworld.rigs),
                        AllHookBeads(sworld, sworld.rigs),
                        sworld.mailbox, sworld.fastMode)
           slot == Len(sworld.rigs) - Cardinality(pendingG \ {0}) + 1
       IN  /\ townStatus' = [townStatus EXCEPT !.Rigs[slot] = built.rs]
           /\ rigActiveHooks' = [rigActiveHooks EXCEPT ![slot] = built.hooks]
    /\ pendingG' = pendingG \ {idx}
    /\ UNCHANGED <<sworld, spc, nonStatusVars>>

\* the goroutine of the rig at index idx
RigDone(idx) ==
    /\ spc = "waiting"
    /\ idx \in pendingG
    /\ LET built == BuildRigStatus(sworld.rigs[idx], AllSessions(sworld),
                        AllAgentBeads(sworld, sworld.rigs),
                        AllHookBeads(sworld, sworld.rigs),
                        sworld.mailbox, sworld.fastMode)
       IN  /\ townStatus' = [townStatus EXCEPT !.Rigs[idx] = built.rs]
           /\ rigActiveHooks' = [rigActiveHooks EXCEPT ![idx] = built.hooks]
    /\ pendingG' = pendingG \ {idx}
    /\ UNCHANGED <<sworld, spc, nonStatusVars>>

\* wg.Wait returns, the summary is built, the status returned
WaitAndReturnNoWait ==
    /\ spc = "waiting"
    /\ townStatus' = [townStatus EXCEPT !.Summary =
                         BuildSummary(townStatus.Rigs, rigActiveHooks)]
    /\ spc' = "returned"
    /\ UNCHANGED <<sworld, rigActiveHooks, pendingG, nonStatusVars>>

WaitAndReturn ==
    /\ spc = "waiting"
    /\ pendingG = {}
    /\ townStatus' = [townStatus EXCEPT !.Summary =
                         BuildSummary(townStatus.Rigs, rigActiveHooks)]
    /\ spc' = "returned"
    /\ UNCHANGED <<sworld, rigActiveHooks, pendingG, nonStatusVars>>

NextStatus ==
    \/ BuildStart
    \/ GlobalAgentsDone
    \/ \E idx \in 1..Len(StatusRigNames) : RigDone(idx)
    \/ WaitAndReturn

SpecStatus == InitStatus /\ [][NextStatus]_vars

-----------------------------------------------------------------------------
(* Claims about buildStatus.                                               *)

\* the (rig, agent) positions of the returned status whose agent has work
WorkingAgents ==
    {p \in (DOMAIN townStatus.Rigs) \X (1..5) :
        /\ p[2] \in DOMAIN townStatus.Rigs[p[1]].Agents
        /\ townStatus.Rigs[p[1]].Agents[p[2]].HasWork}

\* as many elements as the numbers count[i] add up to
Units(count) ==
    {p \in (DOMAIN townStatus.Rigs) \X (1..5) : p[2] <= count[p[1]]}

\* C16: in every TownStatus buildStatus returns, summary.rig_count is the
\* number of rigs, summary.active_hooks the number of agents of all rigs with
\* has_work, polecat_count and crew_count the sums of the rigs' counts, and
\* witness_count and refinery_count the number of rigs with that flag.
C16_SummaryConsistent ==
    spc = "returned" =>
        LET rigs == townStatus.Rigs
            summary == townStatus.Summary
        IN  /\ summary.RigCount = Len(rigs)
            /\ summary.ActiveHooks = Cardinality(WorkingAgents)
            /\ summary.PolecatCount =
                   Cardinality(Units([i \in DOMAIN rigs |-> rigs[i].PolecatCount]))
            /\ summary.CrewCount =
                   Cardinality(Units([i \in DOMAIN rigs |-> rigs[i].CrewCount]))
            /\ summary.WitnessCount =
                   Cardinality({i \in DOMAIN rigs : rigs[i].HasWitness})
            /\ summary.RefineryCount =
                   Cardinality({i \in DOMAIN rigs : rigs[i].HasRefinery})

\* a status of two rigs returned, with hooked polecats in both rigs and a
\* hooked crew member
C16_Witness ==
    /\ spc = "returned"
    /\ townStatus.Summary.RigCount = 2
    /\ townStatus.Summary.ActiveHooks = 4
    /\ townStatus.Summary.PolecatCount = 4
    /\ townStatus.Summary.CrewCount = 1
    /\ townStatus.Summary.WitnessCount = 1
    /\ \E n \in DOMAIN townStatus.Rigs[1].Agents :
          townStatus.Rigs[1].Agents[n].Role = "crew" /\ townStatus.Rigs[1].Agents[n].HasWork

\* the slot of rig idx holds that rig's status with all its agents
SlotPopulated(idx) ==
    LET r == sworld.rigs[idx]
        rs == townStatus.Rigs[idx]
    IN  /\ rs.Name = r.Name /\ rs.Path = r.Path
        /\ rs.PolecatCount = Len(r.Polecats) /\ rs.CrewCount = Len(r.Crew)
        /\ rs.HasWitness = r.HasWitness /\ rs.HasRefinery = r.HasRefinery
        /\ Len(rs.Agents) = Len(r.Polecats) + Len(r.Crew)
                              + (IF r.HasWitness THEN 1 ELSE 0)
                              + (IF r.HasRefinery THEN 1 ELSE 0)

\* C17: buildStatus returns an error and no status exactly when rig discovery
\* fails; otherwise it returns a status in which the slot of every discovered
\* rig and the global agents list are populated; a town or rigs configuration
\* that fails to load does not make it fail.
C17_NoPartialStatus ==
    /\ spc = "failed" => ~sworld.discoverOK /\ townStatus.isNil
    /\ spc = "returned" =>
          /\ sworld.discoverOK
          /\ ~townStatus.isNil
          /\ townStatus.Name # ""
          /\ ~townStatus.Agents.isNil
          /\ Len(townStatus.Agents.list) =
                 Cardinality({"gt-mayor", "gt-deacon"} \cap AllSessions(sworld))
          /\ Len(townStatus.Rigs) = Len(sworld.rigs)
          /\ \A idx \in DOMAIN sworld.rigs : SlotPopulated(idx)

\* a status of two rigs returned although neither configuration loaded and
\* the mailboxes failed
C17_Witness ==
    /\ spc = "returned"
    /\ ~sworld.townConfigOK /\ ~sworld.rigsConfigOK
    /\ sworld.mailbox.err /\ ~sworld.fastMode
    /\ Len(townStatus.Rigs) = 2
    /\ Len(townStatus.Rigs[2].Agents) = 3
    /\ townStatus.Name = "gt"

-----------------------------------------------------------------------------
(* ConvoysHandler.buildConvoyInfo and getTrackedIssueDetails               *)

\* the longest dependency list of a convoy in the model
MaxDeps == 2

\* strings.HasPrefix(s, prefix)
HasPrefix(s, prefix) ==
    Len(s) >= Len(prefix) /\ SubSeq(s, 1, Len(prefix)) = prefix

\* strings.SplitN(s, ":", 3)
SplitN3(s) ==
    LET colons == {n \in 1..Len(s) : SubSeq(s, n, n) = ":"}
        first == CHOOSE n \in colons : \A m \in colons : n <= m
        later == colons \ {first}
        second == CHOOSE n \in later : \A m \in later : n <= m
    IN  IF colons = {} THEN <<s>>
        ELSE IF later = {} THEN <<SubSeq(s, 1, first - 1), SubSeq(s, first + 1, Len(s))>>
        ELSE <<SubSeq(s, 1, first - 1), SubSeq(s, first + 1, second - 1),
               SubSeq(s, second + 1, Len(s))>>

\* the issue id a 'tracks' dependency names, an external reference
\* external:rig:issue-id reduced to its issue id
TrackedIssueID(depID) ==
    IF HasPrefix(depID, "external:") /\ Len(SplitN3(depID)) = 3
    THEN SplitN3(depID)[3]
    ELSE depID

\* the loop of buildConvoyInfo over convoy.Dependencies
RECURSIVE TracksOf(_)
TracksOf(deps) ==
    IF deps = <<>> THEN <<>>
    ELSE (IF Head(deps).DependencyType = "tracks"
          THEN <<TrackedIssueID(Head(deps).ID)>> ELSE <<>>) \o TracksOf(Tail(deps))

\* trackedIDs: the 'tracks' dependencies, or DependsOn when there are none
TrackedIDs(convoy) ==
    IF Len(TracksOf(convoy.Dependencies)) = 0 THEN convoy.DependsOn
    ELSE TracksOf(convoy.Dependencies)

\* issueMap[id], else bd.Show(id): the issue, or nil
Lookup(in, id) ==
    IF id \in in.batch /\ id \in DOMAIN in.issues
    THEN [isNil |-> FALSE, issue |-> in.issues[id]]
    ELSE IF id \in DOMAIN in.issues /\ in.showOK
    THEN [isNil |-> FALSE, issue |-> in.issues[id]]
    ELSE [isNil |-> TRUE, issue |-> [Title |-> "", Status |-> "", BlockedBy |-> <<>>]]

\* getTrackedIssueDetails: members, blockers, completed
RECURSIVE GetTrackedIssueDetailsCountFound(_, _, _)
GetTrackedIssueDetailsCountFound(in, issueIDs, detailed) ==
    IF issueIDs = <<>> THEN [members |-> <<>>, blockers |-> <<>>, completed |-> 0]
    ELSE LET id == Head(issueIDs)
             found == Lookup(in, id)
             rest == GetTrackedIssueDetailsCountFound(in, Tail(issueIDs), detailed)
         IN  IF found.isNil
             THEN [rest EXCEPT !.members =
                      (IF detailed
                       THEN <<[ID |-> id, Title |-> "(not found)", Status |-> "unknown"]>>
                       ELSE <<>>) \o @]
             ELSE [members |->
                      (IF detailed
                       THEN <<[ID |-> id, Title |-> found.issue.Title,
                               Status |-> found.issue.Status]>>
                       ELSE <<>>) \o rest.members,
                   blockers |->
                      (IF detailed /\ Len(found.issue.BlockedBy) > 0
                          /\ found.issue.Status # "closed"
                       THEN [n \in DOMAIN found.issue.BlockedBy |->
                                [ID |-> id, Title |-> found.issue.Title,
                                 BlockedBy |-> found.issue.BlockedBy[n]]]
                       ELSE <<>>) \o rest.blockers,
                   completed |-> rest.completed + 1]

RECURSIVE GetTrackedIssueDetails(_, _, _)
GetTrackedIssueDetails(in, issueIDs, detailed) ==
    IF issueIDs = <<>> THEN [members |-> <<>>, blockers |-> <<>>, completed |-> 0]
    ELSE LET id == Head(issueIDs)
             found == Lookup(in, id)
             rest == GetTrackedIssueDetails(in, Tail(issueIDs), detailed)
         IN  IF found.isNil
             THEN [rest EXCEPT !.members =
                      (IF detailed
                       THEN <<[ID |-> id, Title |-> "(not found)", Status |-> "unknown"]>>
                       ELSE <<>>) \o @]
             ELSE [members |->
                      (IF detailed
                       THEN <<[ID |-> id, Title |-> found.issue.Title,
                               Status |-> found.issue.Status]>>
                       ELSE <<>>) \o rest.members,
                   blockers |->
                      (IF detailed /\ Len(found.issue.BlockedBy) > 0
                          /\ found.issue.Status # "closed"
                       THEN [n \in DOMAIN found.issue.BlockedBy |->
                                [ID |-> id, Title |-> found.issue.Title,
                                 BlockedBy |-> found.issue.BlockedBy[n]]]
                       ELSE <<>>) \o rest.blockers,
                   completed |-> rest.completed
                                   + (IF found.issue.Status = "closed" THEN 1 ELSE 0)]

\* float64(a) / float64(b), kept as the fraction; 1.0 is 1/1
Ratio(a, b) == [num |-> a, den |-> b]

\* buildConvoyInfo
BuildConvoyInfo(in) ==
    LET convoy == in.convoy
        trackedIDs == TrackedIDs(convoy)
        info == [ID |-> convoy.ID, Name |-> convoy.Title, Status |-> convoy.Status,
                 CompletedAt |-> IF convoy.Status = "closed" /\ convoy.ClosedAt # ""
                                 THEN convoy.ClosedAt ELSE "",
                 TrackedIDs |-> trackedIDs, Total |-> Len(trackedIDs),
                 Progress |-> Ratio(0, 1), Completed |-> 0,
                 Members |-> <<>>, Blockers |-> <<>>]
        details == GetTrackedIssueDetails(in, trackedIDs, in.detailed)
    IN  IF info.Total = 0 THEN [info EXCEPT !.Progress = Ratio(1, 1)]
        ELSE [info EXCEPT !.Completed = details.completed,
                          !.Progress = Ratio(details.completed, info.Total),
                          !.Members = IF in.detailed THEN details.members ELSE <<>>,
                          !.Blockers = IF in.detailed THEN details.blockers ELSE <<>>]

-----------------------------------------------------------------------------
(* SpecConvoy: buildConvoyInfo on one convoy issue                         *)

\* the ids a convoy's dependencies can name
DepIDs == {"gt-1", "external:acme:gt-2", "external:gt-9"}

Deps == [ID : DepIDs, DependencyType : {"tracks", "blocks"}]

DepLists == UNION {[1..n -> Deps] : n \in 0..MaxDeps}

DependsOnLists == {<<>>, <<"gt-1">>, <<"gt-1", "gt-9">>, <<"gt-2", "gt-2">>}

\* the issues of the town's stores, by id
IssueStores ==
    {[id \in dom |-> [Title |-> "Issue " \o id,
                      Status |-> IF id \in closed THEN "closed" ELSE "open",
                      BlockedBy |-> IF id = "gt-2" THEN <<"gt-1">> ELSE <<>>]] :
        dom \in SUBSET {"gt-1", "gt-2", "gt-9"}, closed \in SUBSET {"gt-1", "gt-2"}}

ConvoyInputs ==
    {[convoy |-> [ID |-> "hq-cv-1", Title |-> "Release", Status |-> st,
                  ClosedAt |-> IF st = "closed" THEN "2025-01-02" ELSE "",
                  Dependencies |-> deps, DependsOn |-> dependsOn],
      issues |-> issues, batch |-> found[1], showOK |-> found[2],
      detailed |-> detailed] :
        st \in {"open", "closed"}, deps \in DepLists, dependsOn \in DependsOnLists,
        issues \in IssueStores,
        found \in {<<{"gt-1", "gt-2", "gt-9"}, TRUE>>, <<{"gt-1"}, TRUE>>, <<{}, FALSE>>},
        detailed \in BOOLEAN}

NoConvoyInfo ==
    [ID |-> "", Name |-> "", Status |-> "", CompletedAt |-> "", TrackedIDs |-> <<>>,
     Total |-> 0, Progress |-> Ratio(0, 1), Completed |-> 0, Members |-> <<>>,
     Blockers |-> <<>>]

InitConvoy ==
    /\ convoyIn \in ConvoyInputs
    /\ convoyInfo = NoConvoyInfo
    /\ NonConvoyIdle

\* info := h.buildConvoyInfo(convoy, detailed)
BuildInfo ==
    /\ convoyInfo = NoConvoyInfo
    /\ convoyInfo' = BuildConvoyInfo(convoyIn)
    /\ UNCHANGED <<convoyIn, nonConvoyVars>>

NextConvoy == BuildInfo

SpecConvoy == InitConvoy /\ [][NextConvoy]_vars

-----------------------------------------------------------------------------
(* Claims about convoy progress.                                           *)

\* the tracked id resolves, in the batch or by itself, to a closed issue
ResolvesClosed(id) ==
    /\ id \in DOMAIN convoyIn.issues
    /\ id \in convoyIn.batch \/ convoyIn.showOK
    /\ convoyIn.issues[id].Status = "closed"

\* C18: in the ConvoyInfo built for a convoy, total is the number of tracked
\* ids, completed the number of them that resolve to a closed issue (an id that
\* does not resolve is not completed), 0 <= completed <= total, progress is
\* completed/total when total > 0, and with no tracked id progress is 1.0 and
\* completed = total = 0.
C18_ConvoyProgress ==
    convoyInfo.ID # "" =>
        /\ convoyInfo.Total = Len(convoyInfo.TrackedIDs)
        /\ convoyInfo.Completed =
               Cardinality({n \in DOMAIN convoyInfo.TrackedIDs :
                               ResolvesClosed(convoyInfo.TrackedIDs[n])})
        /\ 0 <= convoyInfo.Completed /\ convoyInfo.Completed <= convoyInfo.Total
        /\ convoyInfo.Progress.den > 0
        /\ convoyInfo.Total > 0 =>
               convoyInfo.Progress.num * convoyInfo.Total =
                   convoyInfo.Completed * convoyInfo.Progress.den
        /\ convoyInfo.TrackedIDs = <<>> =>
               /\ convoyInfo.Progress.num = convoyInfo.Progress.den
               /\ convoyInfo.Completed = 0 /\ convoyInfo.Total = 0

\* a convoy tracking gt-1 (closed) and, by an external reference, gt-2 (open):
\* one of two completed
C18_Witness ==
    /\ convoyInfo.ID # ""
    /\ convoyInfo.TrackedIDs = <<"gt-1", "gt-2">>
    /\ convoyIn.convoy.Dependencies # <<>>
    /\ "gt-2" \in DOMAIN convoyIn.issues
    /\ convoyInfo.Completed = 1
    /\ convoyInfo.Progress = Ratio(1, 2)

-----------------------------------------------------------------------------
(* SpecStop: the life of one Broadcaster. Start launches pollLoop, which   *)
(* polls once and then waits in its select; Stop closes stopCh and waits   *)
(* for the loop. bpc is the position of the pollLoop goroutine:            *)
(* "unstarted", "spawned" (before its first poll), "idle" (in the select), *)
(* "polling" (inside checkForChanges) and "exited".                        *)

\* What getAgentSnapshots returns in the worlds with at most one agent.
StopSnapshots == {s \in ObservableSnapshots : Cardinality(DOMAIN s) <= 1}

\* Start: b.wg.Add(1); go b.pollLoop()
Start ==
    /\ bpc = "unstarted"
    /\ wgCount' = wgCount + 1
    /\ bpc' = "spawned"
    /\ UNCHANGED <<prevAgents, currentAgents, todoCurr, todoPrev, handed, firstRun,
                   stopCh, stopPc, stopAt, classifyVars, hubVars, doctorVars, statusVars,
                   convoyVars, lockVars, laterVars>>

\* pollLoop: the initial b.checkForChanges(), made before stopCh is looked at
PollLoopInitial == CheckForChangesBegin("spawned", StopSnapshots)

\* pollLoop: case <-ticker.C: b.checkForChanges()
PollLoopTick == CheckForChangesBegin("idle", StopSnapshots)

\* pollLoop: case <-b.stopCh: return, and the deferred b.wg.Done()
PollLoopStop ==
    /\ bpc = "idle"
    /\ stopCh = "closed"
    /\ bpc' = "exited"
    /\ wgCount' = wgCount - 1
    /\ UNCHANGED <<prevAgents, currentAgents, todoCurr, todoPrev, handed, firstRun,
                   stopCh, stopPc, stopAt, classifyVars, hubVars, doctorVars, statusVars,
                   convoyVars, lockVars, laterVars>>

\* Stop: close(b.stopCh), called once on a started Broadcaster
StopClose ==
    /\ stopPc = "idle"
    /\ bpc # "unstarted"
    /\ stopCh' = "closed"
    /\ stopPc' = "waiting"
    /\ stopAt' = bpc
    /\ UNCHANGED <<wgCount, pollVars, classifyVars, hubVars, doctorVars, statusVars,
                   convoyVars, lockVars, laterVars>>

\* A mutant of Stop: it returns without b.wg.Wait().
StopWaitNoWait ==
    /\ stopPc = "waiting"
    /\ stopPc' = "returned"
    /\ UNCHANGED <<stopCh, wgCount, stopAt, pollVars, classifyVars, hubVars, doctorVars,
                   statusVars, convoyVars, lockVars, laterVars>>

\* Stop: b.wg.Wait() returns, and Stop with it
StopWait ==
    /\ stopPc = "waiting"
    /\ wgCount = 0
    /\ stopPc' = "returned"
    /\ UNCHANGED <<stopCh, wgCount, stopAt, pollVars, classifyVars, hubVars, doctorVars,
                   statusVars, convoyVars, lockVars, laterVars>>

StopAddresses == UNION {DOMAIN s : s \in StopSnapshots}

InitStop ==
    /\ prevAgents = EmptySnapshots
    /\ currentAgents = EmptySnapshots
    /\ bpc = "unstarted"
    /\ todoCurr = {}
    /\ todoPrev = {}
    /\ handed = EmptyBag
    /\ firstRun = [taken |-> FALSE, msgs |-> EmptyBag]
    /\ ClassifyIdle
    /\ HubIdle
    /\ OtherIdle

\* One step of the pollLoop goroutine inside checkForChanges
CycleStep ==
    \/ \E addr \in StopAddresses : VisitCurrent(addr)
    \/ \E addr \in StopAddresses : VisitPrev(addr)
    \/ EndCycle

NextStop ==
    \/ Start
    \/ PollLoopInitial
    \/ PollLoopTick
    \/ \E addr \in StopAddresses : VisitCurrent(addr)
    \/ \E addr \in StopAddresses : VisitPrev(addr)
    \/ EndCycle
    \/ PollLoopStop
    \/ StopClose
    \/ StopWait

\* The goroutines are scheduled fairly: a step that stays possible is taken.
\* A select with several ready cases picks one at random, so the stop case,
\* ready each time the loop is back in its select, is eventually picked.
FairStop ==
    /\ WF_vars(PollLoopInitial)
    /\ WF_vars(CycleStep)
    /\ SF_vars(PollLoopStop)
    /\ WF_vars(StopWait)

SpecStop == InitStop /\ [][NextStop]_vars /\ FairStop

-----------------------------------------------------------------------------
(* Graceful stop                                                           *)

\* C19: Stop returns only after the poll loop has exited; a poll cycle in
\* flight is left only by replacing the previous snapshot with the one it
\* read, and the loop exits only from its select, never from inside a cycle;
\* once Stop has returned no cycle starts, no event is handed to the hub and
\* the stored snapshot stays as it is; and a Stop that was called returns.
C19_GracefulStop ==
    /\ [](stopPc = "returned" => bpc = "exited")
    /\ [][(bpc = "polling" /\ bpc' # "polling")
            => (/\ bpc' = "idle"
                /\ todoCurr = {} /\ todoPrev = {}
                /\ prevAgents' = currentAgents)]_vars
    /\ [][stopPc = "returned"
            => (bpc' = bpc /\ handed' = handed /\ prevAgents' = prevAgents)]_vars
    /\ (stopPc = "waiting" ~> stopPc = "returned")

\* C19 witness: Stop was called while a cycle was in flight, the stored
\* snapshot holds an agent, and Stop has returned.
C19_Witness ==
    /\ stopPc = "returned"
    /\ stopAt = "polling"
    /\ bpc = "exited"
    /\ prevAgents # EmptySnapshots

-----------------------------------------------------------------------------
(* SpecLock: checkForChanges called from two goroutines at once, again and *)
(* again. Each caller has its own position and its own currentAgents;      *)
(* b.mu, b.prevAgents and the hub are shared. A caller stands at "call",   *)
(* "locked" (holds b.mu), "first" (read the agent states), "second" (the   *)
(* first loop is over), "compared" (both loops are over) or "replaced".    *)

Callers == {"g1", "g2"}

\* A caller outside checkForChanges: no local snapshot, nothing read
NoLocal == [current |-> EmptySnapshots, read |-> EmptySnapshots]

\* The broadcasts of the first loop, over currentAgents
FirstLoopMsgs(prev, current) ==
    {AgentUpdateMsg(addr,
                    IF addr \notin DOMAIN prev THEN "connected"
                    ELSE DetectChangeType(prev[addr], current[addr]),
                    current[addr]) :
        addr \in {a \in DOMAIN current : a \notin DOMAIN prev \/ current[a] # prev[a]}}

\* The broadcasts of the second loop, over b.prevAgents
SecondLoopMsgs(prev, current) ==
    {AgentUpdateMsg(addr, "disconnected", prev[addr]) :
        addr \in DOMAIN prev \ DOMAIN current}

\* A mutant of the lock: b.mu.Lock() succeeds while another caller holds b.mu.
LockNoExclusion(c) ==
    /\ cpc[c] = "call"
    /\ mu' = c
    /\ cpc' = [cpc EXCEPT ![c] = "locked"]
    /\ UNCHANGED <<ccur, pollVars, classifyVars, hubVars, doctorVars, statusVars,
                   convoyVars, lifeVars, laterVars>>

\* b.mu.Lock()
Lock(c) ==
    /\ cpc[c] = "call"
    /\ mu = "free"
    /\ mu' = c
    /\ cpc' = [cpc EXCEPT ![c] = "locked"]
    /\ UNCHANGED <<ccur, pollVars, classifyVars, hubVars, doctorVars, statusVars,
                   convoyVars, lifeVars, laterVars>>

\* currentAgents := b.getAgentSnapshots()
GetSnapshots(c) ==
    /\ cpc[c] = "locked"
    /\ \E snapshots \in StopSnapshots :
        ccur' = [ccur EXCEPT ![c] = [current |-> snapshots, read |-> EmptySnapshots]]
    /\ cpc' = [cpc EXCEPT ![c] = "first"]
    /\ UNCHANGED <<mu, pollVars, classifyVars, hubVars, doctorVars, statusVars,
                   convoyVars, lifeVars, laterVars>>

\* for addr, curr := range currentAgents { ... }: the first read of b.prevAgents
CompareCurrent(c) ==
    /\ cpc[c] = "first"
    /\ handed' = SetToBag(FirstLoopMsgs(prevAgents, ccur[c].current))
    /\ ccur' = [ccur EXCEPT ![c].read = prevAgents]
    /\ cpc' = [cpc EXCEPT ![c] = "second"]
    /\ UNCHANGED <<mu, prevAgents, currentAgents, bpc, todoCurr, todoPrev, firstRun,
                   classifyVars, hubVars, doctorVars, statusVars, convoyVars, lifeVars, laterVars>>

\* for addr, prev := range b.prevAgents { ... }
ComparePrev(c) ==
    /\ cpc[c] = "second"
    /\ handed' = handed (+) SetToBag(SecondLoopMsgs(prevAgents, ccur[c].current))
    /\ cpc' = [cpc EXCEPT ![c] = "compared"]
    /\ UNCHANGED <<mu, ccur, prevAgents, currentAgents, bpc, todoCurr, todoPrev, firstRun,
                   classifyVars, hubVars, doctorVars, statusVars, convoyVars, lifeVars, laterVars>>

\* b.prevAgents = currentAgents
Replace(c) ==
    /\ cpc[c] = "compared"
    /\ prevAgents' = ccur[c].current
    /\ cpc' = [cpc EXCEPT ![c] = "replaced"]
    /\ UNCHANGED <<mu, ccur, currentAgents, bpc, todoCurr, todoPrev, handed, firstRun,
                   classifyVars, hubVars, doctorVars, statusVars, convoyVars, lifeVars, laterVars>>

\* the deferred b.mu.Unlock(), and the return
Unlock(c) ==
    /\ cpc[c] = "replaced"
    /\ mu' = "free"
    /\ ccur' = [ccur EXCEPT ![c] = NoLocal]
    /\ cpc' = [cpc EXCEPT ![c] = "call"]
    /\ UNCHANGED <<pollVars, classifyVars, hubVars, doctorVars, statusVars,
                   convoyVars, lifeVars, laterVars>>

InitLock ==
    /\ mu = "free"
    /\ cpc = [c \in Callers |-> "call"]
    /\ ccur = [c \in Callers |-> NoLocal]
    /\ ClassifyIdle
    /\ PollIdle
    /\ HubIdle
    /\ DoctorIdle
    /\ StatusIdle
    /\ ConvoyIdle
    /\ LifeIdle
    /\ LaterIdle

NextLock ==
    \E c \in Callers :
        \/ Lock(c)
        \/ GetSnapshots(c)
        \/ CompareCurrent(c)
        \/ ComparePrev(c)
        \/ Replace(c)
        \/ Unlock(c)

SpecLock == InitLock /\ [][NextLock]_vars

-----------------------------------------------------------------------------
(* Poll cycles do not overlap                                              *)

\* The callers between their first read of b.prevAgents and its replacement.
InWindow == {c \in Callers : cpc[c] \in {"second", "compared"}}

\* C20: at most one caller of checkForChanges is between its read of the
\* previous snapshot and its replacement of it, and while it is there the
\* stored snapshot is still the one it read: no other caller replaced it.
C20_CyclesNeverOverlap ==
    /\ Cardinality(InWindow) <= 1
    /\ \A c \in InWindow : prevAgents = ccur[c].read

\* C20 witness: one caller is between its read and its replacement, comparing
\* against a snapshot an earlier cycle stored, while the other caller has
\* called checkForChanges and is held at b.mu.Lock().
C20_Witness ==
    /\ cpc["g1"] = "compared"
    /\ ccur["g1"].read # EmptySnapshots
    /\ ccur["g1"].current # ccur["g1"].read
    /\ cpc["g2"] = "call"
    /\ mu = "g1"
    /\ ~ENABLED Lock("g2")

-----------------------------------------------------------------------------
(* The stored snapshot after a cycle                                       *)

\* C21: a poll cycle ends by storing exactly the snapshot it observed, and a
\* cycle that observes the snapshot the previous cycle stored hands no event
\* to the hub.
C21_SnapshotReplaced ==
    /\ [][(bpc = "polling" /\ bpc' = "idle") => prevAgents' = currentAgents]_vars
    /\ []((bpc = "polling" /\ currentAgents = prevAgents) => handed = EmptyBag)

\* C21 witness: a second cycle has run both loops over an unchanged snapshot
\* that holds an agent, and nothing was handed over.
C21_Witness ==
    /\ bpc = "polling"
    /\ todoCurr = {}
    /\ todoPrev = {}
    /\ prevAgents # EmptySnapshots
    /\ currentAgents = prevAgents
    /\ handed = EmptyBag

-----------------------------------------------------------------------------
(* SpecStart: Start, the initial poll and the polls on ticks, each poll    *)
(* observing any snapshot getAgentSnapshots can return.                    *)

\* A mutant of pollLoop: no initial poll, the loop goes straight to its select.
FirstPollSkipped ==
    /\ bpc = "spawned"
    /\ bpc' = "idle"
    /\ UNCHANGED <<prevAgents, currentAgents, todoCurr, todoPrev, handed, firstRun,
                   classifyVars, hubVars, otherVars>>

\* pollLoop: the initial b.checkForChanges(), over every observable snapshot
FirstPoll == CheckForChangesBegin("spawned", ObservableSnapshots)

NextStart ==
    \/ Start
    \/ FirstPoll
    \/ BeginCycle
    \/ \E addr \in Addresses : VisitCurrent(addr)
    \/ \E addr \in Addresses : VisitPrev(addr)
    \/ EndCycle

\* The pollLoop goroutine, once launched, is scheduled.
SpecStart == InitStop /\ [][NextStart]_vars /\ WF_vars(FirstPoll)

\* C22: once pollLoop is launched its next move is a poll cycle, which it
\* does start; that cycle compares against the empty snapshot NewBroadcaster
\* stored, which stays empty until the cycle ends; and a cycle comparing
\* against the empty snapshot hands over "connected" events only, one for
\* each observed agent once both loops are over.
C22_FirstCycleConnected ==
    /\ [][bpc = "spawned" => (bpc' = "polling" /\ prevAgents' = EmptySnapshots)]_vars
    /\ (bpc = "spawned" ~> bpc = "polling")
    /\ [][(bpc = "polling" /\ bpc' = "polling") => prevAgents' = prevAgents]_vars
    /\ []((bpc = "polling" /\ prevAgents = EmptySnapshots)
            => /\ \A m \in BagToSet(handed) :
                    /\ m.Payload.ChangeType = "connected"
                    /\ handed[m] = 1
               /\ (todoCurr = {} /\ todoPrev = {})
                    => {m.Payload.Address : m \in BagToSet(handed)} = DOMAIN currentAgents)

\* C22 witness: the first cycle observed several agents, one of them running
\* with work, and has handed over its events.
C22_Witness ==
    /\ bpc = "polling"
    /\ prevAgents = EmptySnapshots
    /\ todoCurr = {}
    /\ todoPrev = {}
    /\ Cardinality(DOMAIN currentAgents) >= 3
    /\ \E a \in DOMAIN currentAgents : currentAgents[a].Running /\ currentAgents[a].HasWork
    /\ BagCardinality(handed) = Cardinality(DOMAIN currentAgents)

-----------------------------------------------------------------------------
(* The payload of an event                                                 *)

\* The tuple an agent_update payload carries.
PayloadTuple(m) ==
    [Running |-> m.Payload.Running, HasWork |-> m.Payload.HasWork,
     HookBead |-> m.Payload.HookBead, WorkTitle |-> m.Payload.WorkTitle,
     State |-> m.Payload.State]

\* C24 (as claimed): every message handed to the hub in a poll cycle carries
\* the address of an agent and that agent's tuple as it stands in the new
\* snapshot of the cycle, together with the change kind.
C24_PayloadFromNewSnapshot ==
    bpc = "polling" =>
        \A m \in BagToSet(handed) :
            /\ m.Payload.ChangeType # ""
            /\ m.Payload.Address \in DOMAIN currentAgents
            /\ PayloadTuple(m) = currentAgents[m.Payload.Address]

-----------------------------------------------------------------------------
(* The life of a client's send channel                                     *)

\* C25: a client is in h.clients exactly when its send channel is open; no
\* step closes a closed channel or sends on one; a channel once closed stays
\* closed; and Run receiving on h.unregister a client that was already
\* dropped changes neither the registry nor any channel.
C25_SendChannelLifecycle ==
    /\ [](\A c \in Clients : c \in clients <=> sendOpen[c])
    /\ [](~panicked)
    /\ [][\A c \in Clients :
            /\ (cstate[c] # "new" /\ ~sendOpen[c]) => ~sendOpen'[c]
            /\ (cstate[c] = "closing" /\ cstate'[c] = "done" /\ c \notin clients)
                 => (clients' = clients /\ sendOpen' = sendOpen /\ send' = send)]_vars

\* C25 witness: a client whose reader has failed was dropped as a slow
\* consumer before Run received it on h.unregister, while the other client
\* is registered with its channel open.
C25_Witness ==
    \E c, d \in Clients :
        /\ cstate[c] = "closing"
        /\ c \notin clients
        /\ ~sendOpen[c]
        /\ d \in clients
        /\ sendOpen[d]

\* C26: a message read by readPump that does not parse as a SubscribeMessage,
\* or parses with no topic, leaves every client's topic set as it was and
\* the client registered, its reader running and its send channel open.
C26_UnknownInputIgnored ==
    [][last' = "read_ignored"
            => /\ topics' = topics
               /\ cstate' = cstate
               /\ clients' = clients
               /\ sendOpen' = sendOpen
               /\ send' = send]_vars

\* C26 witness: a registered client that had subscribed to "agents" sent
\* input that was ignored; it is still registered and its reader runs.
C26_Witness ==
    \E c \in Clients :
        /\ last = "read_ignored"
        /\ cstate[c] = "live"
        /\ c \in clients
        /\ topics[c] = {TopicAll, TopicAgents}

-----------------------------------------------------------------------------
(* SpecPipe: events on their way from the poll cycles to the connections.  *)
(* Cycle after cycle hands agent events to Hub.Broadcast; Run publishes    *)
(* them to the clients' send channels; each writePump writes frames to its *)
(* connection; the web client takes a frame apart again.  A payload is the *)
(* agent's address and the number of the cycle, on two lines.  One        *)
(* connection is followed: Run treats every client of h.clients alike and  *)
(* a writePump touches nothing but its own channel and connection.         *)

\* The poll cycles that hand events over.
MaxCycles == 2

PipeAddresses == {"acme/fox", "mayor"}

\* The connection whose frames are followed.
PipeClients == {"c1"}

\* The message a cycle hands over for an agent
AgentEvent(address, cycle) ==
    [Type |-> WSTypeAgentUpdate, Payload |-> <<address, "\n", ToString(cycle)>>]

PipeEvents == PipeAddresses \X (1..MaxCycles)

\* The next checkForChanges begins: cycles follow one another, never overlapping
Tick ==
    /\ clock < MaxCycles
    /\ clock' = clock + 1
    /\ emitted' = {}
    /\ UNCHANGED <<wframe, wn, conn, classifyVars, pollVars, hubVars, doctorVars,
                   statusVars, convoyVars, lifeVars, lockVars, modeVars, snapVars, serverVars,
                   regVars>>

\* broadcastAgentUpdate called by the running cycle, once for an address at most
Emit(address) ==
    /\ clock >= 1
    /\ address \notin emitted
    /\ emitted' = emitted \cup {address}
    /\ BroadcastSend(AgentEvent(address, clock))
    /\ UNCHANGED <<clock, wframe, wn, conn, classifyVars, pollVars, doctorVars,
                   statusVars, convoyVars, lifeVars, lockVars, modeVars, snapVars, serverVars,
                   regVars>>

\* writePump: case message, ok := <-c.send with ok true; NextWriter; w.Write(message)
PumpRecv(c) ==
    /\ wstate[c] = "idle"
    /\ send[c] # <<>>
    /\ wframe' = [wframe EXCEPT ![c] = Head(send[c])]
    /\ send' = [send EXCEPT ![c] = Tail(send[c])]
    /\ wstate' = [wstate EXCEPT ![c] = "opened"]
    /\ last' = "other"
    /\ UNCHANGED <<clients, broadcast, sendOpen, topics, cstate, panicked>>
    /\ UNCHANGED <<clock, emitted, wn, conn, classifyVars, pollVars, doctorVars, statusVars,
                   convoyVars, lifeVars, lockVars, modeVars, snapVars, serverVars,
                   regVars>>

\* writePump: n := len(c.send)
PumpLen(c) ==
    /\ wstate[c] = "opened"
    /\ wn' = [wn EXCEPT ![c] = Len(send[c])]
    /\ wstate' = [wstate EXCEPT ![c] = "drain"]
    /\ last' = "other"
    /\ UNCHANGED <<clients, broadcast, send, sendOpen, topics, cstate, panicked>>
    /\ UNCHANGED <<clock, emitted, wframe, conn, classifyVars, pollVars, doctorVars, statusVars,
                   convoyVars, lifeVars, lockVars, modeVars, snapVars, serverVars,
                   regVars>>

\* A mutant of the drain loop: the queued message is put in front of the frame.
PumpDrainInFront(c) ==
    /\ wstate[c] = "drain"
    /\ wn[c] > 0
    /\ wframe' = [wframe EXCEPT ![c] = Head(send[c]) \o <<"\n">> \o wframe[c]]
    /\ send' = [send EXCEPT ![c] = Tail(send[c])]
    /\ wn' = [wn EXCEPT ![c] = wn[c] - 1]
    /\ last' = "other"
    /\ UNCHANGED <<clients, broadcast, sendOpen, topics, cstate, wstate, panicked>>
    /\ UNCHANGED <<clock, emitted, conn, classifyVars, pollVars, doctorVars, statusVars,
                   convoyVars, lifeVars, lockVars, modeVars, snapVars, serverVars,
                   regVars>>

\* writePump: one turn of the drain loop, w.Write('\n') and w.Write(<-c.send)
PumpDrain(c) ==
    /\ wstate[c] = "drain"
    /\ wn[c] > 0
    /\ wframe' = [wframe EXCEPT ![c] = wframe[c] \o <<"\n">> \o Head(send[c])]
    /\ send' = [send EXCEPT ![c] = Tail(send[c])]
    /\ wn' = [wn EXCEPT ![c] = wn[c] - 1]
    /\ last' = "other"
    /\ UNCHANGED <<clients, broadcast, sendOpen, topics, cstate, wstate, panicked>>
    /\ UNCHANGED <<clock, emitted, conn, classifyVars, pollVars, doctorVars, statusVars,
                   convoyVars, lifeVars, lockVars, modeVars, snapVars, serverVars,
                   regVars>>

\* writePump: w.Close() succeeds, the frame is on the connection
PumpClose(c) ==
    /\ wstate[c] = "drain"
    /\ wn[c] = 0
    /\ conn' = [conn EXCEPT ![c] = Append(conn[c], wframe[c])]
    /\ wframe' = [wframe EXCEPT ![c] = <<>>]
    /\ wstate' = [wstate EXCEPT ![c] = "idle"]
    /\ last' = "other"
    /\ UNCHANGED <<clients, broadcast, send, sendOpen, topics, cstate, panicked>>
    /\ UNCHANGED <<clock, emitted, wn, classifyVars, pollVars, doctorVars, statusVars,
                   convoyVars, lifeVars, lockVars, modeVars, snapVars, serverVars,
                   regVars>>

\* event.data.split('\n')
Split(data) ==
    LET feeds == {i \in 1..Len(data) : data[i] = "\n"}
        n == Cardinality(feeds)
        Feed(k) == IF k = 0 THEN 0
                   ELSE IF k = n + 1 THEN Len(data) + 1
                   ELSE CHOOSE i \in feeds : Cardinality({j \in feeds : j < i}) = k - 1
    IN  [k \in 1..(n + 1) |-> SubSeq(data, Feed(k - 1) + 1, Feed(k) - 1)]

\* s.trim() is the empty string
IsBlank(str) == \A i \in 1..Len(str) : str[i] \in {" ", "\t", "\r", "\n"}

\* The JSON text of every event.
WireText == [e \in PipeEvents |-> MustMarshal(AgentEvent(e[1], e[2]))]

\* JSON.parse succeeds: the text is the JSON text of a message
JSONParses(text) == \E e \in PipeEvents : WireText[e] = text

\* ws.onmessage: the texts passed on to handleMessage, in order; a text
\* that does not parse ends the handling of the frame
OnMessage(data) ==
    LET messages == SelectSeq(Split(data), LAMBDA str : ~IsBlank(str))
        failing == {i \in 1..Len(messages) : ~JSONParses(messages[i])}
    IN  IF failing = {}
        THEN messages
        ELSE SubSeq(messages, 1, (CHOOSE i \in failing : \A j \in failing : i <= j) - 1)

\* The texts the web client handles over the frames of a connection.
Received(frames) ==
    LET All[i \in 0..Len(frames)] ==
            IF i = 0 THEN <<>> ELSE All[i - 1] \o OnMessage(frames[i])
    IN  All[Len(frames)]

InitPipe ==
    /\ ClassifyIdle
    /\ PollIdle
    /\ HubIdle
    /\ OtherIdle

NextPipe ==
    \/ \E c \in PipeClients : Register(c)
    \/ \E c \in PipeClients : ReadError(c)
    \/ \E c \in PipeClients : Unregister(c)
    \/ Tick
    \/ \E address \in PipeAddresses : Emit(address)
    \/ Publish
    \/ \E c \in PipeClients : PumpRecv(c)
    \/ \E c \in PipeClients : PumpLen(c)
    \/ \E c \in PipeClients : PumpDrain(c)
    \/ \E c \in PipeClients : PumpClose(c)
    \/ \E c \in PipeClients : WriterClosed(c)

SpecPipe == InitPipe /\ [][NextPipe]_vars

-----------------------------------------------------------------------------
(* Order and coalescing                                                    *)

\* The event a handled text stands for: JSON.parse of the text.
EventOf(text) == CHOOSE e \in PipeEvents : WireText[e] = text

Stream(frames, open, queued) == Received(frames) \o OnMessage(open) \o queued

-----------------------------------------------------------------------------
(* Partition isolation of the doctor checks.                               *)

\* the partitions whose pinned records cannot be listed
FailedPartitions == {d \in PartitionDirs : ~beadsDirs[d].listable}

\* the attachment violations of the partitions that can be listed
ListedViolations ==
    UNION {{<<d, rec.ID>> : rec \in {r \in PinnedIn(d) : ViolationKind(d, r) # ""}} :
              d \in PartitionDirs \ FailedPartitions}

\* the duplicated handoff titles of the partitions that can be listed
ListedDuplicates ==
    {v \in (PartitionDirs \ FailedPartitions) \X (HandoffTitles \cup {"Mayor Handoff"}) :
        Len(PinnedTitled(v[1], v[2])) > 1}

\* C28: right after a Run of either check, a partition whose pinned records
\* could not be listed appears in no reported violation and does not turn the
\* result into an error, while every violation of every other partition
\* (the town store and each rig store) is reported by that Run: the
\* violations reported are those of the listable partitions, and the status
\* is error exactly when there is one.
C28_PartitionIsolation ==
    /\ LastEntry[1] = "hook-attachment-valid" /\ LastEntry[2] \in {"run_ok", "run_err"} =>
          /\ {<<invalidAttachments[n].pinnedBeadDir, invalidAttachments[n].pinnedBeadID>> :
                 n \in DOMAIN invalidAttachments} = ListedViolations
          /\ result.Found = Cardinality(ListedViolations)
          /\ result.Status = (IF ListedViolations = {} THEN StatusOK ELSE StatusError)
    /\ LastEntry[1] = "hook-singleton" /\ LastEntry[2] \in {"run_ok", "run_err"} =>
          /\ {<<duplicates[n].beadsDir, duplicates[n].title>> : n \in DOMAIN duplicates}
                 = ListedDuplicates
          /\ result.Status = (IF ListedDuplicates = {} THEN StatusOK ELSE StatusError)

\* the town store, which holds a dangling attachment and two records of one
\* handoff title, cannot be listed; the singleton Run and then the attachment
\* Run have reported the rig store's violations and nothing of the town store
C28_Witness ==
    /\ Len(phase) = 2
    /\ phase[1] = <<"hook-singleton", "run_err">>
    /\ phase[2] = <<"hook-attachment-valid", "run_err">>
    /\ TownBeadsDir \in FailedPartitions
    /\ RigBeadsDir \in PartitionDirs
    /\ \E rec \in PinnedIn(TownBeadsDir) : ViolationKind(TownBeadsDir, rec) = "not_found"
    /\ Len(PinnedTitled(TownBeadsDir, "Mayor Handoff")) > 1
    /\ invalidAttachments # <<>>
    /\ \A n \in DOMAIN invalidAttachments : invalidAttachments[n].pinnedBeadDir = RigBeadsDir
    /\ duplicates # <<>>
    /\ \A n \in DOMAIN duplicates : duplicates[n].beadsDir = RigBeadsDir

-----------------------------------------------------------------------------
(* The parallel build of the status.                                       *)

\* what the rig at index idx yields, computed on its own
RigBuilt(idx) ==
    BuildRigStatus(sworld.rigs[idx], AllSessions(sworld),
        AllAgentBeads(sworld, sworld.rigs), AllHookBeads(sworld, sworld.rigs),
        sworld.mailbox, sworld.fastMode)

\* a step of a task while buildStatus waits touches the slot of that task only
OwnSlotOnly ==
    spc = "waiting" =>
        /\ \A idx \in DOMAIN townStatus.Rigs :
              (\/ townStatus'.Rigs[idx] # townStatus.Rigs[idx]
               \/ rigActiveHooks'[idx] # rigActiveHooks[idx])
                  => idx \in pendingG /\ pendingG' = pendingG \ {idx}
        /\ townStatus'.Agents # townStatus.Agents
              => 0 \in pendingG /\ pendingG' = pendingG \ {0}
        /\ Len(townStatus'.Rigs) = Len(townStatus.Rigs)
        /\ Len(rigActiveHooks') = Len(rigActiveHooks)

\* the summary is written, and the status returned, only with no task left
SummaryAfterAll ==
    (townStatus'.Summary # townStatus.Summary \/ spc' = "returned") => pendingG = {}

\* the status returned is the one a sequential build in discovery order gives
SequentialResult ==
    spc = "returned" =>
        /\ townStatus.Rigs = [idx \in DOMAIN sworld.rigs |-> RigBuilt(idx).rs]
        /\ rigActiveHooks = [idx \in DOMAIN sworld.rigs |-> RigBuilt(idx).hooks]
        /\ \A idx \in DOMAIN sworld.rigs : townStatus.Rigs[idx].Name = sworld.rigs[idx].Name
        /\ townStatus.Agents.list =
               DiscoverGlobalAgents(AllSessions(sworld), sworld.mailbox, sworld.fastMode)
        /\ townStatus.Summary =
               BuildSummary([idx \in DOMAIN sworld.rigs |-> RigBuilt(idx).rs],
                            [idx \in DOMAIN sworld.rigs |-> RigBuilt(idx).hooks])

\* C29: during the parallel phase of buildStatus the task of rig i writes only
\* Rigs[i] and rigActiveHooks[i] and the global-agents task only Agents, the
\* summary pass starts only when every task has finished, and the TownStatus
\* returned is the same whatever the order in which the tasks finish, its
\* rigs in discovery order.
C29_ParallelBuildDeterministic ==
    /\ [][OwnSlotOnly /\ SummaryAfterAll]_vars
    /\ []SequentialResult

\* two rigs: the task of the second rig and the global-agents task have
\* finished and filled their slots while the first rig's slot is still empty
C29_Witness ==
    /\ spc = "waiting"
    /\ Len(sworld.rigs) = 2
    /\ pendingG = {1}
    /\ townStatus.Rigs[1] = ZeroRigStatus
    /\ townStatus.Rigs[2].Name = StatusRigNames[2]
    /\ rigActiveHooks[2] > 0
    /\ townStatus.Agents.list # <<>>

-----------------------------------------------------------------------------
(* SpecModes: buildStatus called twice on the same town, in the other mode *)
(* or in fast mode again after the mail state has changed.                 *)

\* a handler calls buildStatus once more: the sessions, rigs and beads are
\* the ones the first call read
CallAgain(fastMode, mailbox) ==
    /\ spc = "returned"
    /\ firstCall = <<>>
    /\ \/ fastMode # sworld.fastMode /\ mailbox = sworld.mailbox
       \/ fastMode /\ sworld.fastMode /\ mailbox # sworld.mailbox
    /\ firstCall' = <<[fastMode |-> sworld.fastMode, mailbox |-> sworld.mailbox,
                       status |-> townStatus]>>
    /\ sworld' = [sworld EXCEPT !.fastMode = fastMode, !.mailbox = mailbox]
    /\ spc' = "called"
    /\ townStatus' = NilTownStatus
    /\ rigActiveHooks' = <<>>
    /\ pendingG' = {}
    /\ UNCHANGED <<classifyVars, pollVars, hubVars, doctorVars, convoyVars,
                   lifeVars, lockVars, pipeVars, snapVars, serverVars, regVars>>

NextModes ==
    \/ BuildStart
    \/ GlobalAgentsDone
    \/ \E idx \in 1..Len(StatusRigNames) : RigDone(idx)
    \/ WaitAndReturn
    \/ \E fastMode \in BOOLEAN, mailbox \in Mailboxes : CallAgain(fastMode, mailbox)

SpecModes == InitStatus /\ [][NextModes]_vars

\* the agents with every unread count put to 0
ZeroMail(agents) == [n \in DOMAIN agents |-> [agents[n] EXCEPT !.UnreadMail = 0]]

\* a status with every unread count, the agents' and the overseer's, put to 0
NoMail(st) ==
    [st EXCEPT !.Overseer = [st.Overseer EXCEPT !.UnreadMail = 0],
               !.Agents = [isNil |-> st.Agents.isNil, list |-> ZeroMail(st.Agents.list)],
               !.Rigs = [i \in DOMAIN st.Rigs |->
                            [st.Rigs[i] EXCEPT !.Agents = ZeroMail(st.Rigs[i].Agents)]]]

\* C30: on the same sessions, rigs, beads and mail, the status buildStatus
\* returns in fast mode is the status it returns in full mode with every
\* unread count, each agent's and the overseer's, put to 0, and nothing else
\* differs; the fast-mode status does not depend on the state of any mailbox
\* (no mailbox is asked for its count).
C30_FastModeOnlySkipsMail ==
    spc = "returned" =>
        /\ sworld.fastMode => townStatus = NoMail(townStatus)
        /\ Len(firstCall) = 1 =>
              LET first == firstCall[1]
              IN  /\ (first.fastMode /\ ~sworld.fastMode) =>
                         first.status = NoMail(townStatus)
                  /\ (~first.fastMode /\ sworld.fastMode) =>
                         townStatus = NoMail(first.status)
                  /\ (first.fastMode /\ sworld.fastMode) =>
                         /\ first.mailbox # sworld.mailbox
                         /\ townStatus = first.status

\* the fast call returned zero counts everywhere; the full call on the same
\* town returned the overseer, a global agent and a rig agent with unread mail
C30_Witness ==
    /\ spc = "returned"
    /\ Len(firstCall) = 1
    /\ firstCall[1].fastMode /\ ~sworld.fastMode
    /\ firstCall[1].mailbox = sworld.mailbox
    /\ townStatus.Overseer.UnreadMail = 2
    /\ \E n \in DOMAIN townStatus.Agents.list : townStatus.Agents.list[n].UnreadMail = 2
    /\ \E i \in DOMAIN townStatus.Rigs : \E n \in DOMAIN townStatus.Rigs[i].Agents :
          townStatus.Rigs[i].Agents[n].UnreadMail = 2
    /\ firstCall[1].status.Overseer.UnreadMail = 0
    /\ firstCall[1].status.Summary = townStatus.Summary

-----------------------------------------------------------------------------
(* SpecSnapshot: buildStatus and getAgentSnapshots on the same town.       *)

\* the poll loop's getAgentSnapshots reads the town buildStatus has read
TakeSnapshot ==
    /\ spc \in {"returned", "failed"}
    /\ snapshot = <<>>
    /\ snapshot' = <<GetAgentSnapshots(sworld)>>
    /\ UNCHANGED <<dworld, classifyVars, pollVars, hubVars, doctorVars, statusVars,
                   convoyVars, lifeVars, lockVars, pipeVars, modeVars, serverVars,
                   regVars>>

NextSnapshot ==
    \/ BuildStart
    \/ GlobalAgentsDone
    \/ \E idx \in 1..Len(StatusRigNames) : RigDone(idx)
    \/ WaitAndReturn
    \/ TakeSnapshot

SpecSnapshot == InitStatus /\ [][NextSnapshot]_vars

\* every AgentRuntime of a status: the global agents and the agents of the rigs
StatusAgents(st) ==
    Range(st.Agents.list) \cup UNION {Range(st.Rigs[i].Agents) : i \in DOMAIN st.Rigs}

\* the comparable tuple of an AgentRuntime
RuntimeTuple(agent) ==
    [Running |-> agent.Running, HasWork |-> agent.HasWork, HookBead |-> agent.HookBead,
     State |-> agent.State, WorkTitle |-> agent.WorkTitle]

\* C31 as stated: on the same town, the addresses of getAgentSnapshots are the
\* agent addresses of buildStatus(true), global and of all rigs, and for each
\* address the tuple (running, has-work, hook id, state, work title) is the
\* same in both.
C31_SnapshotIsFastStatus ==
    (spc = "returned" /\ sworld.fastMode /\ Len(snapshot) = 1) =>
        /\ DOMAIN snapshot[1] = {agent.Address : agent \in StatusAgents(townStatus)}
        /\ \A agent \in StatusAgents(townStatus) :
              agent.Address \in DOMAIN snapshot[1]
                  => snapshot[1][agent.Address] = RuntimeTuple(agent)

-----------------------------------------------------------------------------
(* The towns a running detector or server is observed on.                  *)

\* a town of one rig with the polecat fox and a witness: whether the rigs
\* configuration loads and discovery succeeds, the live sessions, and whether
\* fox has an agent bead with a hook
TownOf(ok, sessions, hooked) ==
    [rigsConfigOK |-> ok[1], discoverOK |-> ok[2],
     sessionList |-> [err |-> FALSE, names |-> sessions],
     rigs |-> <<[Name |-> "acme", Polecats |-> <<"fox">>, Crew |-> <<>>,
                 HasWitness |-> TRUE, HasRefinery |-> FALSE]>>,
     agentBeads |-> [rn \in RigNames |->
                        IF hooked
                        THEN [isNil |-> FALSE,
                              beads |-> [a \in {"acme/fox"} |->
                                            [HookBead |-> "gt-42", ParsedHookBead |-> Nil,
                                             AgentState |-> "working"]]]
                        ELSE [isNil |-> TRUE, beads |-> [a \in {} |-> Nil]]],
     hookStore |-> [rn \in RigNames |-> [i \in {"gt-42"} |-> [Title |-> "Fix login bug"]]]]

DetectSessions == {"gt-mayor", "gt-deacon", "gt-acme-fox"}

DetectTowns ==
    {TownOf(ok, sessions, hooked) :
        ok \in BOOLEAN \X BOOLEAN, sessions \in SUBSET DetectSessions, hooked \in BOOLEAN}

ServerTowns == {w \in DetectTowns : w.rigsConfigOK /\ w.discoverOK}

-----------------------------------------------------------------------------
(* SpecServer: Server.Start, the goroutines it starts, observers coming    *)
(* and going, and a town whose agents change.                              *)

InitServer ==
    /\ server \in [pc : {"new"}, townRoot : {"", TownRoot}, hubRun : {FALSE},
                   eb : {"none"}, changed : {FALSE}]
    /\ dworld \in ServerTowns
    /\ snapshot = <<>>
    /\ prevAgents = EmptySnapshots
    /\ currentAgents = EmptySnapshots
    /\ bpc = "unstarted"
    /\ todoCurr = {}
    /\ todoPrev = {}
    /\ handed = EmptyBag
    /\ firstRun = [taken |-> FALSE, msgs |-> EmptyBag]
    /\ ClassifyIdle /\ HubIdle
    /\ DoctorIdle /\ StatusIdle /\ ConvoyIdle /\ LifeIdle /\ LockIdle
    /\ PipeIdle /\ ModeIdle /\ RegistryIdle

\* Server.Start up to ListenAndServe: go s.hub.Run(), and
\* go s.startEventBroadcaster() if the town root is not empty
ServerStart ==
    /\ server.pc = "new"
    /\ server' = [server EXCEPT !.pc = "serving", !.hubRun = TRUE,
                                !.eb = IF server.townRoot # "" THEN "spawned" ELSE "none"]
    /\ UNCHANGED <<snapVars, classifyVars, pollVars, hubVars, doctorVars, statusVars,
                   convoyVars, lifeVars, lockVars, pipeVars, modeVars, regVars>>

\* Server.startEventBroadcaster: the body is empty, the goroutine returns
StartEventBroadcaster ==
    /\ server.eb = "spawned"
    /\ server' = [server EXCEPT !.eb = "returned"]
    /\ UNCHANGED <<snapVars, classifyVars, pollVars, hubVars, doctorVars, statusVars,
                   convoyVars, lifeVars, lockVars, pipeVars, modeVars, regVars>>

\* the town changes: sessions start or end; changed records that the agents'
\* observable state has changed while the server was serving
TownChange(w) ==
    /\ w # dworld
    /\ dworld' = w
    /\ server' = [server EXCEPT !.changed =
                     \/ server.changed
                     \/ /\ server.pc = "serving"
                        /\ GetAgentSnapshots(w) # GetAgentSnapshots(dworld)]
    /\ UNCHANGED <<snapshot, classifyVars, pollVars, hubVars, doctorVars, statusVars,
                   convoyVars, lifeVars, lockVars, pipeVars, modeVars, regVars>>

NextServer ==
    \/ ServerStart
    \/ StartEventBroadcaster
    \/ \E w \in ServerTowns : TownChange(w)
    \/ \E c \in Clients : server.hubRun /\ Register(c)
    \/ \E c \in Clients, in \in Inbound : server.hubRun /\ ReadMessage(c, in)
    \/ \E c \in Clients : server.hubRun /\ ReadError(c)
    \/ \E c \in Clients : server.hubRun /\ Unregister(c)
    \/ \E c \in Clients : server.hubRun /\ WriterClosed(c)

SpecServer ==
    /\ InitServer
    /\ [][NextServer]_vars
    /\ WF_vars(ServerStart)
    /\ WF_vars(StartEventBroadcaster)

\* C32 as stated: once Server.Start has been called with a non-empty town
\* root a poll loop is running, and a change in an agent's observed state is
\* eventually published: every observer registered and subscribed to agent
\* updates gets a message queued (or leaves).
C32_DetectorActive ==
    /\ (server.pc = "serving" /\ server.townRoot # "") ~> (wgCount > 0)
    /\ \A c \in Clients :
          (/\ server.pc = "serving" /\ server.townRoot # "" /\ server.changed
           /\ c \in clients /\ IsSubscribed(topics[c], WSTypeAgentUpdate))
              ~> (send[c] # <<>> \/ c \notin clients)

-----------------------------------------------------------------------------
(* SpecRegistry: the cases of Hub.Run step by step on h.mu, with a caller  *)
(* of ClientCount. The message published is an agent update.               *)

InitRegistry ==
    /\ hmu = [w |-> "", r |-> {}]
    /\ rpc = [at |-> "select", c |-> "", todo |-> {}]
    /\ cnt = [pc |-> "idle", n |-> 0]
    /\ ClassifyIdle /\ PollIdle /\ HubIdle
    /\ DoctorIdle /\ StatusIdle /\ ConvoyIdle /\ LifeIdle /\ LockIdle
    /\ PipeIdle /\ ModeIdle /\ SnapIdle /\ ServerIdle

\* case client := <-h.register: h.mu.Lock()
RunRegister(c) ==
    /\ rpc.at = "select"
    /\ cstate[c] = "new"
    /\ hmu.w = "" /\ hmu.r = {}
    /\ hmu' = [hmu EXCEPT !.w = "run"]
    /\ rpc' = [at |-> "register", c |-> c, todo |-> {}]
    /\ cstate' = [cstate EXCEPT ![c] = "live"]
    /\ sendOpen' = [sendOpen EXCEPT ![c] = TRUE]
    /\ topics' = [topics EXCEPT ![c] = DefaultTopics]
    /\ UNCHANGED <<clients, broadcast, send, wstate, panicked, last, cnt,
                   classifyVars, pollVars, doctorVars, statusVars, convoyVars, lifeVars,
                   lockVars, pipeVars, modeVars, snapVars, serverVars>>

\* h.clients[client] = true
RunRegisterAdd ==
    /\ rpc.at = "register"
    /\ clients' = clients \cup {rpc.c}
    /\ rpc' = [rpc EXCEPT !.at = "unlock"]
    /\ UNCHANGED <<broadcast, send, sendOpen, topics, cstate, wstate, panicked, last,
                   hmu, cnt, classifyVars, pollVars, doctorVars, statusVars, convoyVars,
                   lifeVars, lockVars, pipeVars, modeVars, snapVars, serverVars>>

\* case client := <-h.unregister: h.mu.Lock()
RunUnregister(c) ==
    /\ rpc.at = "select"
    /\ cstate[c] = "live"
    /\ hmu.w = "" /\ hmu.r = {}
    /\ hmu' = [hmu EXCEPT !.w = "run"]
    /\ rpc' = [at |-> "unregister", c |-> c, todo |-> {}]
    /\ cstate' = [cstate EXCEPT ![c] = "closed"]
    /\ UNCHANGED <<clients, broadcast, send, sendOpen, topics, wstate, panicked, last,
                   cnt, classifyVars, pollVars, doctorVars, statusVars, convoyVars,
                   lifeVars, lockVars, pipeVars, modeVars, snapVars, serverVars>>

\* if _, ok := h.clients[client]; ok { delete(h.clients, client); close(client.send) }
RunUnregisterDelete ==
    /\ rpc.at = "unregister"
    /\ IF rpc.c \in clients
       THEN /\ clients' = clients \ {rpc.c}
            /\ sendOpen' = [sendOpen EXCEPT ![rpc.c] = FALSE]
       ELSE UNCHANGED <<clients, sendOpen>>
    /\ rpc' = [rpc EXCEPT !.at = "unlock"]
    /\ UNCHANGED <<broadcast, send, topics, cstate, wstate, panicked, last,
                   hmu, cnt, classifyVars, pollVars, doctorVars, statusVars, convoyVars,
                   lifeVars, lockVars, pipeVars, modeVars, snapVars, serverVars>>

\* h.mu.Unlock()
RunUnlock ==
    /\ rpc.at = "unlock"
    /\ hmu' = [hmu EXCEPT !.w = ""]
    /\ rpc' = [at |-> "select", c |-> "", todo |-> {}]
    /\ UNCHANGED <<hubVars, cnt, classifyVars, pollVars, doctorVars, statusVars,
                   convoyVars, lifeVars, lockVars, pipeVars, modeVars, snapVars,
                   serverVars>>

\* case message := <-h.broadcast: h.mu.RLock(); the loop is about to range
\* over h.clients
RunPublish ==
    /\ rpc.at = "select"
    /\ hmu.w = ""
    /\ hmu' = [hmu EXCEPT !.r = @ \cup {"run"}]
    /\ rpc' = [at |-> "publish", c |-> "", todo |-> clients]
    /\ UNCHANGED <<hubVars, cnt, classifyVars, pollVars, doctorVars, statusVars,
                   convoyVars, lifeVars, lockVars, pipeVars, modeVars, snapVars,
                   serverVars>>

\* one iteration of for client := range h.clients
RunPublishVisit(c) ==
    /\ rpc.at = "publish"
    /\ c \in rpc.todo
    /\ rpc' = [rpc EXCEPT !.todo = @ \ {c}]
    /\ IF ~IsSubscribed(topics[c], WSTypeAgentUpdate)
       THEN UNCHANGED <<clients, send, sendOpen>>
       ELSE IF Len(send[c]) < SendCap
       THEN /\ send' = [send EXCEPT ![c] = Append(@, AgentUpdateBytes)]
            /\ UNCHANGED <<clients, sendOpen>>
       ELSE /\ sendOpen' = [sendOpen EXCEPT ![c] = FALSE]
            /\ clients' = clients \ {c}
            /\ UNCHANGED send
    /\ UNCHANGED <<broadcast, topics, cstate, wstate, panicked, last,
                   hmu, cnt, classifyVars, pollVars, doctorVars, statusVars, convoyVars,
                   lifeVars, lockVars, pipeVars, modeVars, snapVars, serverVars>>

\* h.mu.RUnlock()
RunPublishDone ==
    /\ rpc.at = "publish"
    /\ rpc.todo = {}
    /\ hmu' = [hmu EXCEPT !.r = @ \ {"run"}]
    /\ rpc' = [at |-> "select", c |-> "", todo |-> {}]
    /\ UNCHANGED <<hubVars, cnt, classifyVars, pollVars, doctorVars, statusVars,
                   convoyVars, lifeVars, lockVars, pipeVars, modeVars, snapVars,
                   serverVars>>

\* ClientCount: h.mu.RLock()
ClientCountRLock ==
    /\ cnt.pc = "idle"
    /\ hmu.w = ""
    /\ hmu' = [hmu EXCEPT !.r = @ \cup {"count"}]
    /\ cnt' = [cnt EXCEPT !.pc = "locked"]
    /\ UNCHANGED <<hubVars, rpc, classifyVars, pollVars, doctorVars, statusVars,
                   convoyVars, lifeVars, lockVars, pipeVars, modeVars, snapVars,
                   serverVars>>

\* return len(h.clients), and the deferred h.mu.RUnlock()
ClientCountReturn ==
    /\ cnt.pc = "locked"
    /\ hmu' = [hmu EXCEPT !.r = @ \ {"count"}]
    /\ cnt' = [pc |-> "idle", n |-> Cardinality(clients)]
    /\ UNCHANGED <<hubVars, rpc, classifyVars, pollVars, doctorVars, statusVars,
                   convoyVars, lifeVars, lockVars, pipeVars, modeVars, snapVars,
                   serverVars>>

NextRegistry ==
    \/ \E c \in Clients : RunRegister(c)
    \/ RunRegisterAdd
    \/ \E c \in Clients : RunUnregister(c)
    \/ RunUnregisterDelete
    \/ RunUnlock
    \/ RunPublish
    \/ \E c \in Clients : RunPublishVisit(c)
    \/ RunPublishDone
    \/ ClientCountRLock
    \/ ClientCountReturn

SpecRegistry == InitRegistry /\ [][NextRegistry]_vars

\* C33 as stated: every step that changes the registry is taken while Run
\* holds the exclusive lock of h.mu, so never while a ClientCount call holds
\* the shared lock.
C33_RegistryMutationsExclusive ==
    [][clients' # clients => (hmu.w = "run" /\ "count" \notin hmu.r)]_vars

-----------------------------------------------------------------------------
(* SpecTeardown: the hub with its goroutines scheduled fairly. Run, the    *)
(* writers and the readers' deferred unregister go on when they can; a     *)
(* reader's ReadMessage fails once the writer has closed the connection.   *)

NextTeardown ==
    \/ \E c \in Clients : Register(c)
    \/ \E c \in Clients : ReadError(c)
    \/ \E c \in Clients : Unregister(c)
    \/ Broadcast([Type |-> WSTypeAgentUpdate, Payload |-> <<"payload">>])
    \/ Publish
    \/ \E c \in Clients : WriterRecv(c)
    \/ \E c \in Clients : WriterDrain(c)
    \/ \E c \in Clients : WriterClosed(c)
    \/ \E c \in Clients : WriterError(c)

FairTeardown ==
    /\ WF_vars(Publish)
    /\ \A c \in Clients :
          /\ WF_vars(WriterRecv(c))
          /\ WF_vars(WriterDrain(c))
          /\ WF_vars(WriterClosed(c))
          /\ WF_vars(wstate[c] = "done" /\ ReadError(c))
          /\ WF_vars(Unregister(c))

SpecTeardown == InitHub /\ [][NextTeardown]_vars /\ FairTeardown

\* Run has dropped c for a full queue: c is out of the registry, its queue
\* closed, and its reader has not yet had its unregister accepted
Dropped(c) == c \notin clients /\ ~sendOpen[c] /\ cstate[c] \in {"live", "closing"}

-----------------------------------------------------------------------------
(* SpecDetect: poll cycles on a town that changes between the polls, and   *)
(* whose rigs configuration or rig discovery may fail.                     *)

DetectAddresses == {"mayor", "deacon", "acme/fox", "acme/witness"}

InitDetect ==
    /\ dworld \in DetectTowns
    /\ snapshot = <<>>
    /\ ClassifyIdle /\ PollIdle /\ HubIdle
    /\ DoctorIdle /\ StatusIdle /\ ConvoyIdle /\ LifeIdle /\ LockIdle
    /\ PipeIdle /\ ModeIdle /\ ServerIdle /\ RegistryIdle

\* checkForChanges on the town as it is now
PollTown == CheckForChangesBegin("idle", {GetAgentSnapshots(dworld)})

\* between two polls the town becomes another one
DetectTownChange(w) ==
    /\ bpc = "idle"
    /\ w # dworld
    /\ dworld' = w
    /\ UNCHANGED <<snapshot, classifyVars, pollVars, hubVars, doctorVars, statusVars,
                   convoyVars, lifeVars, lockVars, pipeVars, modeVars, serverVars,
                   regVars>>

NextDetect ==
    \/ PollTown
    \/ \E addr \in DetectAddresses : VisitCurrent(addr)
    \/ \E addr \in DetectAddresses : VisitPrev(addr)
    \/ EndCycle
    \/ \E w \in DetectTowns : DetectTownChange(w)

SpecDetect == InitDetect /\ [][NextDetect]_vars

\* the poll in progress could not load the rigs configuration or discover
\* the rigs
TownFailed == ~(dworld.rigsConfigOK /\ dworld.discoverOK)

\* the kinds of the events handed over for addr in this cycle
KindsFor(addr) == {m.Payload.ChangeType : m \in HandedFor(addr)}

\* C35: a poll cycle in which the rigs configuration does not load or rig
\* discovery fails observes the empty snapshot: once its loops are over it has
\* handed over one "disconnected" event for every agent of the previous
\* snapshot and nothing else, and it leaves the empty snapshot stored; a cycle
\* that starts from the empty stored snapshot hands over "connected" for every
\* agent it observes, whatever the agents were before.
C35_FailedPollDisconnectsAll ==
    /\ [](LoopsDone =>
            /\ TownFailed =>
                  /\ currentAgents = EmptySnapshots
                  /\ \A addr \in DetectAddresses :
                        /\ KindsFor(addr) = (IF addr \in DOMAIN prevAgents
                                             THEN {"disconnected"} ELSE {})
                        /\ CopiesFor(addr) = (IF addr \in DOMAIN prevAgents THEN 1 ELSE 0)
            /\ prevAgents = EmptySnapshots =>
                  \A addr \in DetectAddresses :
                        /\ KindsFor(addr) = (IF addr \in DOMAIN currentAgents
                                             THEN {"connected"} ELSE {})
                        /\ CopiesFor(addr) = (IF addr \in DOMAIN currentAgents THEN 1 ELSE 0))
    /\ [][(LoopsDone /\ TownFailed /\ bpc' = "idle") => prevAgents' = EmptySnapshots]_vars

\* a poll that failed on a town whose four agents were in the stored snapshot:
\* four "disconnected" events handed over
C35_Witness ==
    /\ LoopsDone
    /\ TownFailed
    /\ DOMAIN prevAgents = DetectAddresses
    /\ dworld.sessionList.names = DetectSessions
    /\ BagCardinality(handed) = 4
    /\ \A addr \in DetectAddresses : KindsFor(addr) = {"disconnected"}

\* the addresses of the agents the rigs of town w list
ListedRigAgents(w) ==
    UNION {{Address(w.rigs[i].Name, n) :
               n \in Range(w.rigs[i].Polecats) \cup Range(w.rigs[i].Crew)
                     \cup (IF w.rigs[i].HasWitness THEN {"witness"} ELSE {})
                     \cup (IF w.rigs[i].HasRefinery THEN {"refinery"} ELSE {})} :
           i \in DOMAIN w.rigs}

\* C36: in every snapshot a poll reads, mayor and deacon are present exactly
\* when the town was read and their session is live, and then as running,
\* without work, hook, state or title; over any sequence of polls the events
\* handed over for mayor and deacon are "connected" or "disconnected" only.
\* The agents the rigs list are in the snapshot of every poll that read the
\* town, running or not.
C36_GlobalAgentsConnectOnly ==
    bpc = "polling" =>
        /\ \A g \in {"mayor", "deacon"} :
              /\ g \in DOMAIN currentAgents <=>
                    (~TownFailed /\ ("gt-" \o g) \in dworld.sessionList.names)
              /\ g \in DOMAIN currentAgents =>
                    currentAgents[g] = [Running |-> TRUE, HasWork |-> FALSE, HookBead |-> "",
                                        State |-> "", WorkTitle |-> ""]
              /\ KindsFor(g) \subseteq {"connected", "disconnected"}
        /\ ~TownFailed => ListedRigAgents(dworld) \subseteq DOMAIN currentAgents

\* a finished cycle: mayor's session has ended and mayor is reported
\* disconnected, deacon's has started and deacon is reported connected, and
\* the polecat fox, whose session has ended, is in the snapshot as not running
\* and reported stopped
C36_Witness ==
    /\ LoopsDone
    /\ ~TownFailed
    /\ dworld.sessionList.names = {"gt-deacon"}
    /\ KindsFor("mayor") = {"disconnected"}
    /\ KindsFor("deacon") = {"connected"}
    /\ ~currentAgents["acme/fox"].Running
    /\ KindsFor("acme/fox") = {"stopped"}
    /\ "acme/witness" \in DOMAIN currentAgents

\* has-work goes with a hook id, a work title with has-work
HookConsistent(t) ==
    /\ t.HasWork <=> t.HookBead # ""
    /\ t.WorkTitle # "" => t.HasWork

\* the addresses of the witness and refinery agents of the town read
OverseeingAddresses ==
    {Address(sworld.rigs[i].Name, role) :
        i \in DOMAIN sworld.rigs, role \in {"witness", "refinery"}}

\* C37: in every AgentRuntime of a status buildStatus returns and in every
\* tuple of a snapshot getAgentSnapshots returns, has-work is true exactly
\* when the hook id is not empty, and a work title that is not empty comes
\* with has-work; witness and refinery agents have has-work false and an
\* empty hook id.
C37_HasWorkIffHook ==
    /\ spc = "returned" =>
          \A agent \in StatusAgents(townStatus) :
              /\ HookConsistent(agent)
              /\ agent.Role \in {"witness", "refinery"} =>
                    ~agent.HasWork /\ agent.HookBead = ""
    /\ Len(snapshot) = 1 =>
          \A a \in DOMAIN snapshot[1] :
              /\ HookConsistent(snapshot[1][a])
              /\ a \in OverseeingAddresses =>
                    ~snapshot[1][a].HasWork /\ snapshot[1][a].HookBead = ""

\* a status and a snapshot of the same town: an agent hooked to an issue with
\* a title, an agent hooked to an issue that is not found (no title), an
\* agent without hook and a witness
C37_Witness ==
    /\ spc = "returned"
    /\ Len(snapshot) = 1
    /\ \E a, b, c, d \in DOMAIN snapshot[1] :
          /\ snapshot[1][a].HasWork /\ snapshot[1][a].WorkTitle # ""
          /\ snapshot[1][b].HasWork /\ snapshot[1][b].WorkTitle = ""
          /\ ~snapshot[1][c].HasWork /\ c \notin OverseeingAddresses /\ c \notin {"mayor", "deacon"}
          /\ d \in OverseeingAddresses
    /\ \E x, y \in StatusAgents(townStatus) :
          /\ x.HasWork /\ x.WorkTitle # ""
          /\ y.Role = "witness"

-----------------------------------------------------------------------------
(* Fix acts on the cached findings only.                                   *)

\* the records the last attachment Run reported: store and record id
ReportedAttachments ==
    {<<invalidAttachments[n].pinnedBeadDir, invalidAttachments[n].pinnedBeadID>> :
        n \in DOMAIN invalidAttachments}

\* the records of the groups the last singleton Run reported
ReportedDuplicates ==
    UNION {{<<duplicates[n].beadsDir, duplicates[n].beadIDs[k]>> :
               k \in DOMAIN duplicates[n].beadIDs} : n \in DOMAIN duplicates}

\* the records this step changes: store and record id
TouchedRecords ==
    UNION {{<<d, beadsDirs[d].issues[n].ID>> :
               n \in {k \in DOMAIN beadsDirs[d].issues :
                         beadsDirs'[d].issues[k] # beadsDirs[d].issues[k]}} :
           d \in BeadsDirNames}

\* C38: a Fix changes only records that the last Run of its own check
\* reported (the cached findings), keeps the list and flags of every store,
\* and with an empty cache (no Run yet, or a Run that found nothing) changes
\* no store and returns no error.
C38_FixUsesCachedFindings ==
    [][/\ AttachmentFix =>
            /\ TouchedRecords \subseteq ReportedAttachments
            /\ invalidAttachments = <<>> =>
                   (beadsDirs' = beadsDirs /\ fixErr' = <<>>)
       /\ SingletonFix =>
            /\ TouchedRecords \subseteq ReportedDuplicates
            /\ duplicates = <<>> =>
                   (beadsDirs' = beadsDirs /\ fixErr' = <<>>)
       /\ (AttachmentFix \/ SingletonFix) =>
            \A d \in BeadsDirNames :
                /\ DOMAIN beadsDirs'[d].issues = DOMAIN beadsDirs[d].issues
                /\ \A n \in DOMAIN beadsDirs[d].issues :
                      beadsDirs'[d].issues[n].ID = beadsDirs[d].issues[n].ID]_vars

\* both Fixes have acted on findings of their Runs (a duplicate is closed, a
\* reported attachment is detached) while a pinned record that the attachment
\* Run did not report still carries its attachment
C38_Witness ==
    /\ LastEntry = <<"hook-attachment-valid", "fix_ok">>
    /\ invalidAttachments # <<>>
    /\ duplicates # <<>>
    /\ \E n \in DOMAIN invalidAttachments :
          Record(invalidAttachments[n].pinnedBeadDir,
                 invalidAttachments[n].pinnedBeadID).attachment = NoAttachment
    /\ \E p \in ReportedDuplicates : Record(p[1], p[2]).Status = "closed"
    /\ \E n \in DOMAIN beadsDirs[RigBeadsDir].issues :
          /\ beadsDirs[RigBeadsDir].issues[n].Status = StatusPinned
          /\ ~beadsDirs[RigBeadsDir].issues[n].attachment.isNil
          /\ <<RigBeadsDir, beadsDirs[RigBeadsDir].issues[n].ID>>
                 \notin ReportedAttachments

-----------------------------------------------------------------------------
(* SpecRepair: both checks on a town store and a rig store either of which *)
(* may refuse writes, with pinned records of the rig store closed from     *)
(* outside between the calls.                                              *)

RepairTownStores ==
    {[listable |-> TRUE, writable |-> w,
      issues |-> <<Issue("hq-1", "Mayor Handoff", StatusPinned, Attached("hq-404")),
                   Issue("hq-2", "Mayor Handoff", StatusPinned, NoAttachment)>>] :
        w \in BOOLEAN}

RepairRigStores ==
    {[listable |-> TRUE, writable |-> w,
      issues |-> <<Issue("gt-a", "Polecat Handoff", StatusPinned, Attached("gt-404")),
                   Issue("gt-b", "Polecat Handoff", StatusPinned, NoAttachment),
                   Issue("gt-c", tc, StatusPinned, Attached("gt-404"))>>] :
        w \in BOOLEAN, tc \in HandoffTitles}

InitRepair ==
    /\ \E town \in RepairTownStores, rig \in RepairRigStores :
           beadsDirs = [d \in BeadsDirNames |->
                           IF d = TownBeadsDir THEN town
                           ELSE IF d = RigBeadsDir THEN rig ELSE MayorStore]
    /\ findOutput \in FindOutputs
    /\ invalidAttachments = <<>>
    /\ duplicates = <<>>
    /\ result = NoResult
    /\ fixErr = <<>>
    /\ phase = <<>>
    /\ NonDoctorIdle

\* somebody else closes a pinned record
HandoffClosedOutside(d) ==
    /\ \E n \in DOMAIN beadsDirs[d].issues :
          /\ beadsDirs[d].issues[n].Status = StatusPinned
          /\ beadsDirs' = [beadsDirs EXCEPT ![d].issues[n].Status = "closed"]
    /\ phase' = <<>>
    /\ UNCHANGED <<findOutput, invalidAttachments, duplicates, result, fixErr,
                   nonDoctorVars>>

NextRepair ==
    \/ AttachmentRun
    \/ AttachmentFix
    \/ SingletonRun
    \/ SingletonFix
    \/ HandoffClosedOutside(RigBeadsDir)

SpecRepair == InitRepair /\ [][NextRepair]_vars

\* the cached findings whose repair command fails: the store refuses writes
FailedDetaches ==
    {n \in DOMAIN invalidAttachments :
        ~beadsDirs[invalidAttachments[n].pinnedBeadDir].writable}

FailedCloses ==
    {n \in DOMAIN duplicates : ~beadsDirs[duplicates[n].beadsDir].writable}

\* C39: a Fix goes through every cached finding whatever failed before it:
\* each finding in a store that takes writes is repaired (its record detached,
\* respectively every member but the first closed), each finding whose
\* command fails is reported, and the error is non-nil exactly when some
\* command failed.
C39_FixContinuesAfterFailure ==
    [][/\ AttachmentFix =>
            /\ \A n \in DOMAIN invalidAttachments \ FailedDetaches :
                  LET inv == invalidAttachments[n]
                  IN  \A k \in DOMAIN beadsDirs'[inv.pinnedBeadDir].issues :
                         beadsDirs'[inv.pinnedBeadDir].issues[k].ID = inv.pinnedBeadID
                             => beadsDirs'[inv.pinnedBeadDir].issues[k].attachment
                                    = NoAttachment
            /\ Len(fixErr') = Cardinality(FailedDetaches)
            /\ (fixErr' # <<>>) <=> (FailedDetaches # {})
       /\ SingletonFix =>
            /\ \A n \in DOMAIN duplicates \ FailedCloses :
                  LET dup == duplicates[n]
                  IN  \A k \in DOMAIN beadsDirs'[dup.beadsDir].issues :
                         beadsDirs'[dup.beadsDir].issues[k].ID
                                 \in Range(Tail(dup.beadIDs))
                             => beadsDirs'[dup.beadsDir].issues[k].Status = "closed"
            /\ Len(fixErr') = Cardinality(FailedCloses)
            /\ (fixErr' # <<>>) <=> (FailedCloses # {})]_vars

\* the attachment Fix has failed on the town store, which refuses writes and
\* is scanned first, and has still detached the finding of the rig store
C39_Witness ==
    /\ LastEntry = <<"hook-attachment-valid", "fix_err">>
    /\ ~beadsDirs[TownBeadsDir].writable
    /\ Len(invalidAttachments) > 1
    /\ invalidAttachments[1].pinnedBeadDir = TownBeadsDir
    /\ ~Record(TownBeadsDir, invalidAttachments[1].pinnedBeadID).attachment.isNil
    /\ \E n \in DOMAIN invalidAttachments :
          /\ invalidAttachments[n].pinnedBeadDir = RigBeadsDir
          /\ Record(RigBeadsDir, invalidAttachments[n].pinnedBeadID).attachment
                 = NoAttachment
    /\ fixErr # <<>>

-----------------------------------------------------------------------------
(* The singleton Fix and the last handoff record.                          *)

\* a pinned record of that title is in the store
PinnedTitleIn(dirs, d, title) ==
    \E k \in DOMAIN dirs[d].issues :
        /\ dirs[d].issues[k].Status = StatusPinned
        /\ dirs[d].issues[k].Title = title

\* C40: the singleton Fix never removes the last handoff record: for every
\* title the last Run flagged, if a pinned record of that title is in the
\* partition when Fix starts, one is there when Fix returns, also when the
\* store was changed from outside between Run and Fix.
C40_LastHandoffKept ==
    [][SingletonFix =>
          \A n \in DOMAIN duplicates :
              PinnedTitleIn(beadsDirs, duplicates[n].beadsDir, duplicates[n].title)
                  => PinnedTitleIn(beadsDirs', duplicates[n].beadsDir,
                                   duplicates[n].title)]_vars

====
